---- MODULE Spec2Model ----
(***************************************************************************)
(* A model of mcpax's update/installation engine:                          *)
(*   core/manager.py    ProjectManager (ledger, check_updates,             *)
(*                      apply_updates, file operations)                    *)
(*   core/downloader.py Downloader (download_all, download_file,           *)
(*                      _download_stream, _verify_hash)                    *)
(*   core/api.py        ModrinthClient (version filtering)                 *)
(* The file system is a map from paths to file contents; the persisted     *)
(* ledger is the JSON document at <minecraft_dir>/.mcpax-state.json.       *)
(***************************************************************************)
EXTENDS Integers, Sequences, FiniteSets, TLC

----------------------------------------------------------------------------
(* Values *)

Slugs == {"a", "b", "c"}

\* The order of the entries in the list handed to an operation.
SlugOrder == <<"a", "b", "c">>

NOT_INSTALLED == "not_installed"
INSTALLED == "installed"
OUTDATED == "outdated"
NOT_COMPATIBLE == "not_compatible"
CHECK_FAILED == "check_failed"


MOD == "mod"
SHADER == "shader"
RESOURCEPACK == "resourcepack"


\* File contents. "new": the bytes the remote serves for a slug's target
\* file; "bad": other bytes served in their place; "old": the bytes of the
\* previously installed file; "partial": a file opened for writing whose
\* body is not complete; "garbled": what two interleaved writers leave.
Bytes(k, s) == [kind |-> k, slug |-> s]
NoFile == Bytes("nofile", "-")
NoBytes == Bytes("none", "-")
Garbled == Bytes("garbled", "-")

\* A hex digest string: the digest of some bytes, in lower or upper case.
Hex(b, up) == [tag |-> "hex", of |-> b, upper |-> up]
\* hashes.get("sha512") of a file that declares none.
NoneHash == [tag |-> "none", of |-> NoBytes, upper |-> FALSE]
\* The empty string "".
EmptyStr == [tag |-> "empty", of |-> NoBytes, upper |-> FALSE]

\* str.lower() on a digest string.
Lower(h) == [h EXCEPT !.upper = FALSE]

\* A path: a directory and a file name in it.
Path(d, n) == [dir |-> d, name |-> n]
NoPath == Path("-", "-")

NewNames == {"x.jar", "y.jar", "z.jar"}
OldName(s) == CASE s = "a" -> "old_a.jar" [] s = "b" -> "old_b.jar" [] OTHER -> "old_c.jar"
OldNames == {OldName(s) : s \in Slugs}

DOWNLOADS == ".mcpax-downloads"
BACKUP == ".mcpax-backup"

TypeDirs == {"mods", "shaderpacks", "resourcepacks"}

Paths ==
    {Path(DOWNLOADS, n) : n \in NewNames}
    \cup {Path(d, n) : d \in TypeDirs, n \in NewNames \cup OldNames}
    \cup {Path(BACKUP, n) : n \in OldNames \cup NewNames}

----------------------------------------------------------------------------
(* State *)

VARIABLES
    \* the inputs of the run: the configuration and the batch
    kind,           \* per slug, the kind of its entry in the updates list
    fname,          \* per slug, the filename of its target file
    oldCase,        \* where the previously installed files are, and whether
                    \* two of them have the same file name
    verify_hash,    \* AppConfig.verify_hash / DownloaderConfig.verify_hash
    backup,         \* apply_updates' backup argument
    max_concurrent, \* DownloaderConfig.max_concurrent
    \* the file system
    disk,           \* path -> contents
    ledgerFile,     \* the document at .mcpax-state.json
    ledger0,        \* the ledger document before the operation started
    \* apply_updates
    pc,             \* where apply_updates is
    idx,            \* the loop index of the running loop
    pstep,          \* the step of the slug being processed
    state,          \* the StateFile loaded at the start (in memory)
    state_modified,
    tasks,          \* the download tasks (slugs, in order)
    update_info,    \* slug -> project type, for the slugs with a task
    result,         \* the UpdateResult being built
    final_path,     \* final_path of the slug being processed
    dl,             \* per slug, its download_file execution
    \* history
    phase,          \* per slug, the furthest step its execution reached
    io,             \* how often the ledger file was read and written
    faults,         \* the failures of file and ledger operations and of
                    \* get_project that the environment injected: <<slug, what>>
    live,           \* the slugs upserted into the persisted ledger and not
                    \* removed since
    \* the ledger operations outside a batch
    nOps,           \* how many of them have run
    \* check_updates
    channel,        \* per slug, ProjectConfig.channel
    remote,         \* per slug, what get_versions answers
    results,        \* the list check_updates is building
    cpc,            \* where check_updates is
    cidx,           \* its loop index
    \* _save_state and _load_state called on their own
    lpc,            \* where the calls are
    given,          \* the StateFile given to _save_state
    answer,         \* what the last _load_state of these calls, or of
                    \* apply_updates, answered
    \* filter_compatible_versions and get_latest_compatible_version
    given_versions, \* the caller's list of versions
    wanted,         \* the game version, loader and channel asked for
    filtered,       \* per channel, what filter_compatible_versions returned
    chosen,         \* the calls of get_latest_compatible_version: the list
                    \* passed and the version returned
    \* ModrinthClient._request
    max_retries,    \* ModrinthClient.max_retries
    backoff_factor, \* ModrinthClient.backoff_factor
    slug_arg,       \* the slug argument and the path of the call
    attempt,        \* the loop variable
    sent,           \* what each request sent so far was answered with
    slept,          \* the waits of asyncio.sleep so far
    rpc,            \* where _request is
    thrown,         \* the exception that left _request
    \* get_install_status
    spc,            \* where get_install_status is
    asked,          \* the slug it is asked about
    install_status, \* the InstallStatus it returned
    \* the callbacks of the Downloader
    has_callbacks,  \* whether on_task_start, on_progress and on_task_complete
                    \* are set
    calls,          \* per slug, the calls of the callbacks for its task
    \* a second apply_updates
    previous,       \* what an earlier apply_updates of the run left
    \* ApiCache
    ttl_seconds,    \* ApiCache._ttl_seconds
    clock,          \* time.time()
    cache,          \* ApiCache._data
    cache_file,     \* the file at ApiCache._path
    sets,           \* how many set_project and set_versions calls were made
    last_set,       \* per namespace and slug, what was set last and when
    fetched         \* the last call of the ApiCache, with what it was given
                    \* or what it returned

inputVars == <<kind, fname, oldCase, verify_hash, backup, max_concurrent>>
fsVars == <<disk, ledgerFile, ledger0>>
applyVars == <<pc, idx, pstep, state, state_modified, tasks, update_info,
               result, final_path, dl>>
histVars == <<phase, io, faults, live>>
checkVars == <<channel, remote, results, cpc, cidx>>
stateVars == <<lpc, given, answer>>
filterVars == <<given_versions, wanted, filtered, chosen>>
requestVars == <<max_retries, backoff_factor, slug_arg, attempt, sent, slept, rpc, thrown>>
gatewayVars == <<filterVars, requestVars>>
statusVars == <<spc, asked, install_status>>
callbackVars == <<has_callbacks, calls>>
planVars == <<previous>>
cacheVars == <<ttl_seconds, clock, cache, cache_file, sets, last_set, fetched>>
serviceVars == <<statusVars, callbackVars, planVars, cacheVars>>
vars == <<inputVars, fsVars, applyVars, histVars, nOps, checkVars, stateVars, gatewayVars,
          serviceVars>>

----------------------------------------------------------------------------
(* The settings and the remote data of the run *)

\* The greatest DownloaderConfig.max_concurrent a run is given.
MaxConcurrent == 2

\* ProjectManager.STATE_VERSION / StateFile.version's default.
STATE_VERSION == 1

\* ProjectManager.get_target_directory with no directory configured.
get_target_directory(project_type) ==
    CASE project_type = MOD -> "mods"
      [] project_type = SHADER -> "shaderpacks"
      [] project_type = RESOURCEPACK -> "resourcepacks"

\* ProjectManager._get_temp_download_dir.
TempDownloadDir == DOWNLOADS

\* What get_project answers for a slug: its project type.
RemoteProjectType(s) == IF s = "c" THEN SHADER ELSE MOD

\* The sha512 the remote declares for a slug's target file: lower case,
\* upper case, or none.
DeclaredHash(s) ==
    CASE s = "a" -> Hex(Bytes("new", "a"), FALSE)
      [] s = "b" -> Hex(Bytes("new", "b"), TRUE)
      [] OTHER -> NoneHash

\* A ProjectFile, and the None in its place.
ProjectFile(n, h, prim) == [filename |-> n, hashes |-> h, primary |-> prim]
NoProjectFile == ProjectFile("-", NoneHash, FALSE)

\* hashes.get("sha512") and hashes.get("sha512", "").
GetSha512(file) == file.hashes
GetSha512OrEmpty(file) == IF file.hashes = NoneHash THEN EmptyStr ELSE file.hashes

\* An InstalledFile, and the None in its place.
InstalledFile(s, pt, n, vid, vnum, h, at, p) ==
    [slug |-> s, project_type |-> pt, filename |-> n, version_id |-> vid,
     version_number |-> vnum, sha512 |-> h, installed_at |-> at, file_path |-> p]
NoInstalled == InstalledFile("-", "-", "-", "-", "-", EmptyStr, 0, NoPath)

\* Where a slug's previously installed file is recorded to be.
OldPath(s) ==
    CASE oldCase = "same" -> Path(get_target_directory(RemoteProjectType(s)), fname[s])
      [] oldCase = "shared" /\ s = "c" ->
            Path(get_target_directory(RemoteProjectType(s)), OldName("b"))
      [] OTHER -> Path(get_target_directory(RemoteProjectType(s)), OldName(s))

\* The ledger record of a slug's previously installed file.
OldRecord(s) ==
    InstalledFile(s, RemoteProjectType(s), OldPath(s).name, "v1", "1.0",
                  Hex(Bytes("old", s), FALSE), 0, OldPath(s))

\* The status of a slug's entry that needs no action.
SkipStatus(s) ==
    CASE s = "a" -> INSTALLED [] s = "b" -> NOT_COMPATIBLE [] OTHER -> CHECK_FAILED

Kinds == {"skip", "install", "update", "nofile"}

\* Whether the ledger has a record of the slug before the operation.
HasRecord(s) == kind[s] = "update" \/ (kind[s] = "skip" /\ SkipStatus(s) = INSTALLED)

\* The UpdateCheckResult of a slug in the updates list.
Update(s) ==
    [slug |-> s,
     status |-> CASE kind[s] = "skip" -> SkipStatus(s)
                  [] kind[s] = "update" -> OUTDATED
                  [] OTHER -> NOT_INSTALLED,
     current_version |-> IF HasRecord(s) THEN OldRecord(s).version_number ELSE "-",
     current_file |-> IF HasRecord(s) THEN OldRecord(s) ELSE NoInstalled,
     latest_version |->
         IF kind[s] = "skip" /\ SkipStatus(s) # INSTALLED THEN "-" ELSE "2.0",
     latest_version_id |->
         IF kind[s] = "skip" /\ SkipStatus(s) # INSTALLED THEN "-" ELSE "v2",
     latest_file |->
         IF kind[s] \in {"install", "update"}
            \/ (kind[s] = "skip" /\ SkipStatus(s) = INSTALLED)
         THEN ProjectFile(fname[s], DeclaredHash(s), TRUE)
         ELSE NoProjectFile,
     error |-> IF kind[s] = "skip" /\ SkipStatus(s) = CHECK_FAILED
               THEN "get_versions failed" ELSE "-"]

\* The updates list, in order.
updates == [i \in 1..Len(SlugOrder) |-> Update(SlugOrder[i])]

----------------------------------------------------------------------------
(* The ledger: StateFile in memory, the JSON document on disk *)

\* A StateFile: a version and the files dict, a set of key/value entries.
StateFile(v, files) == [version |-> v, files |-> files]

DictKeys(d) == {e.key : e \in d}
DictHas(d, k) == k \in DictKeys(d)
\* d[k], for a key that is present.
DictGet(d, k) == (CHOOSE e \in d : e.key = k).val
\* d.get(k): None when the key is absent.
DictGetOrNone(d, k) == IF DictHas(d, k) THEN DictGet(d, k) ELSE NoInstalled
\* An assignment that adds an entry and leaves the old one of the key.
DictAdd(d, k, v) == d \cup {[key |-> k, val |-> v]}

\* d[k] = v: the entry of k is replaced, or added.
DictSet(d, k, v) == {e \in d : e.key # k} \cup {[key |-> k, val |-> v]}
\* del d[k].
DictDel(d, k) == {e \in d : e.key # k}

\* A JSON object that has no "version" member.
VersionAbsent == 0

\* The ledger file: absent, a JSON document, or a file whose text is no
\* complete JSON document (truncated, or empty).
AbsentDoc == [kind |-> "absent", version |-> VersionAbsent, files |-> {}]
PartialDoc == [kind |-> "partial", version |-> VersionAbsent, files |-> {}]
JsonDoc(v, files) == [kind |-> "json", version |-> v, files |-> files]
\* A file whose text is a JSON value that is no object: a list, a number,
\* a string, null.
ValueDoc == [kind |-> "value", version |-> VersionAbsent, files |-> {}]
\* A JSON object whose "files" member is no object.
FilesValueDoc(v) == [kind |-> "files_value", version |-> v, files |-> {}]

\* InstalledFile.model_dump(mode="json"): the path becomes its string, the
\* timestamp its ISO-8601 text, the project type its value.
model_dump(f) ==
    [slug |-> f.slug, project_type |-> f.project_type, filename |-> f.filename,
     version_id |-> f.version_id, version_number |-> f.version_number,
     sha512 |-> f.sha512, installed_at |-> [iso |-> f.installed_at],
     file_path |-> [str |-> f.file_path]]

\* Path(file_data["file_path"]), ProjectType(...), model_validate.
model_validate(j) ==
    InstalledFile(j.slug, j.project_type, j.filename, j.version_id,
                  j.version_number, j.sha512, j.installed_at.iso, j.file_path.str)

\* The document _save_state writes for a StateFile.
DumpState(st) ==
    JsonDoc(st.version, {[key |-> e.key, val |-> model_dump(e.val)] : e \in st.files})

\* A JSON object without one of its members.
WithoutKey(j, k) == [f \in DOMAIN j \ {k} |-> j[f]]
\* A member of "files" that is no object.
ScalarJson == [scalar |-> TRUE]
\* A "file_path" member that is no string.
NumberJson == [number |-> TRUE]

\* The members InstalledFile requires.
RequiredFields ==
    {"slug", "project_type", "filename", "version_id", "version_number", "sha512",
     "installed_at", "file_path"}

\* Lines 114-117: what the conversion of one entry of "files" raises, "-" when
\* it raises nothing. Subscripting a value that is no object and Path() of a
\* value that is no string raise TypeError; a missing "file_path" or
\* "project_type" raises KeyError; ProjectType() of an unknown value and
\* model_validate of an incomplete object raise ValueError.
EntryRaises(j) ==
    CASE "scalar" \in DOMAIN j -> "TypeError"
      [] "file_path" \notin DOMAIN j -> "KeyError"
      [] "str" \notin DOMAIN j.file_path -> "TypeError"
      [] "project_type" \notin DOMAIN j -> "KeyError"
      [] j.project_type \notin {MOD, SHADER, RESOURCEPACK} -> "ValueError"
      [] RequiredFields \ DOMAIN j # {} -> "ValueError"
      [] OTHER -> "-"

\* data.get("version", 1).
GetVersion(doc) == IF doc.version = VersionAbsent THEN STATE_VERSION ELSE doc.version

\* The StateFile a parse that takes no version from the document builds.
ParseStateDefaultVersion(doc) ==
    StateFile(STATE_VERSION,
              {[key |-> e.key, val |-> model_validate(e.val)] : e \in doc.files})

\* The StateFile _load_state builds from a JSON document.
ParseState(doc) ==
    StateFile(GetVersion(doc),
              {[key |-> e.key, val |-> model_validate(e.val)] : e \in doc.files})

\* The ledger and the files on disk before the operation.
InitialState == StateFile(STATE_VERSION,
    {[key |-> s, val |-> OldRecord(s)] : s \in {t \in Slugs : HasRecord(t)}})

InitialDisk ==
    LET held == IF oldCase = "missing" THEN {} ELSE {s \in Slugs : HasRecord(s)}
        at == [s \in held |-> OldPath(s)]
    IN  [p \in Paths |->
            IF \E s \in held : at[s] = p
            THEN Bytes("old", CHOOSE s \in held : at[s] = p)
            ELSE NoFile]

----------------------------------------------------------------------------
(* Ledger I/O: _load_state and _save_state *)

\* What _load_state answers: a StateFile, or the exception it raises.
LoadReturns(st) == [ok |-> TRUE, state |-> st, raised |-> "-"]
LoadRaises(exc) == [ok |-> FALSE, state |-> StateFile(STATE_VERSION, {}), raised |-> exc]

\* Lines 122-126: the exceptions the except clause turns into StateFileError.
Caught == {"JSONDecodeError", "KeyError", "ValueError"}
Reraised(exc) == LoadRaises(IF exc \in Caught THEN "StateFileError" ELSE exc)

\* What the loop over the entries of "files" raises: the exception of the
\* first entry whose conversion raises one.
EntriesRaise(doc) == {EntryRaises(e.val) : e \in doc.files} \ {"-"}

\* _load_state: an empty StateFile when the file is absent; the parsed one
\* when the file holds a JSON object whose entries convert; and an
\* exception otherwise: StateFileError for the ones the except clause
\* names, and data.get's or .items()'s AttributeError, or an entry's
\* TypeError, as they are.
_load_state(doc) ==
    CASE doc.kind = "absent" -> LoadReturns(StateFile(STATE_VERSION, {}))
      [] doc.kind = "partial" -> Reraised("JSONDecodeError")
      [] doc.kind = "value" -> Reraised("AttributeError")
      [] doc.kind = "files_value" -> Reraised("AttributeError")
      [] OTHER -> IF EntriesRaise(doc) = {}
                  THEN LoadReturns(ParseState(doc))
                  ELSE Reraised(CHOOSE exc \in EntriesRaise(doc) : TRUE)

\* open(path, "w"): the file exists and is empty from here on.
OpenForWriting(doc) == PartialDoc

\* json.dump and the close of the file: the whole document is in the file.
WriteDocument(st) == DumpState(st)

----------------------------------------------------------------------------
(* apply_updates *)

\* A filter that also lets the installed entries through.
ActionableOrInstalled == {NOT_INSTALLED, OUTDATED, INSTALLED}

\* Lines 490-494: the statuses that need action.
Actionable == {NOT_INSTALLED, OUTDATED}

\* to_update: the entries that need action, in input order.
ToUpdate == SelectSeq(updates, LAMBDA u : u.status \in Actionable)

\* The DownloadTask of a slug.
Task(s) ==
    [slug |-> s,
     dest |-> Path(TempDownloadDir, Update(s).latest_file.filename),
     expected_hash |-> GetSha512(Update(s).latest_file)]

NoDownload == [st |-> "none", error |-> "-", file_created |-> FALSE, read |-> EmptyStr]

EmptyResult == [successful |-> <<>>, failed |-> <<>>, backed_up |-> <<>>]

\* result.failed.append((slug, message)).
AppendFailed(res, s, msg) == [res EXCEPT !.failed = Append(@, <<s, msg>>)]

SuccessfulSlugs == {result.successful[i] : i \in 1..Len(result.successful)}
FailedSlugs == {result.failed[i][1] : i \in 1..Len(result.failed)}
FailedWith(s, msg) == \E i \in 1..Len(result.failed) : result.failed[i] = <<s, msg>>

\* Lines 485-503: the filter, the early return, the one load of the ledger.
ApplyBegin ==
    /\ pc = "start"
    /\ IF ToUpdate = <<>>
       THEN /\ pc' = "done"
            /\ UNCHANGED <<state, io, idx, answer>>
       ELSE LET loaded == _load_state(ledgerFile) IN
            /\ io' = [io EXCEPT !.loads = @ + 1]
            /\ state' = loaded.state
            /\ answer' = loaded
            /\ pc' = IF loaded.ok THEN "prepare" ELSE "raised"
            /\ idx' = 1
    /\ ledger0' = ledgerFile
    /\ UNCHANGED <<inputVars, disk, ledgerFile, pstep, state_modified, tasks,
                   update_info, result, final_path, dl, phase, faults, live,
                   nOps, checkVars, lpc, given, gatewayVars, serviceVars>>

\* The end of one pass of the loop of lines 509-529.
AfterPrepare(newTasks) ==
    /\ idx' = IF idx < Len(ToUpdate) THEN idx + 1 ELSE 1
    /\ pc' = IF idx < Len(ToUpdate) THEN "prepare"
             ELSE IF newTasks # <<>> THEN "download" ELSE "save"

\* Lines 509-529: one entry of to_update becomes a download task, or fails.
Prepare ==
    /\ pc = "prepare"
    /\ LET u == ToUpdate[idx]
           s == u.slug
       IN \/ /\ u.latest_file = NoProjectFile
             /\ result' = AppendFailed(result, s, "No compatible version found")
             /\ AfterPrepare(tasks)
             /\ UNCHANGED <<tasks, update_info, dl, faults>>
          \/ /\ u.latest_file # NoProjectFile
             /\ tasks' = Append(tasks, s)
             /\ update_info' = [update_info EXCEPT ![s] = RemoteProjectType(s)]
             /\ dl' = [dl EXCEPT ![s].st = "queued"]
             /\ AfterPrepare(tasks')
             /\ UNCHANGED <<result, faults>>
          \/ /\ u.latest_file # NoProjectFile     \* get_project raises
             /\ result' = AppendFailed(result, s, "get_project failed")
             /\ faults' = faults \cup {<<s, "get_project">>}
             /\ AfterPrepare(tasks)
             /\ UNCHANGED <<tasks, update_info, dl>>
    /\ UNCHANGED <<inputVars, fsVars, pstep, state, state_modified, final_path,
                   phase, io, live, nOps, checkVars, stateVars, gatewayVars, serviceVars>>

----------------------------------------------------------------------------
(* Downloader: download_all, download_file, _download_stream, _verify_hash *)

\* compute_sha512: hashlib's hexdigest, which is lower case.
compute_sha512(bytes) == Hex(bytes, FALSE)

\* A comparison that finds every pair of digests equal.
HashNeverDiffers(actual_hash, expected_hash) == Lower(actual_hash) # Lower(actual_hash)

\* The comparison of _verify_hash, line 309.
HashDiffers(actual_hash, expected_hash) == Lower(actual_hash) # Lower(expected_hash)

\* The guard of lines 189 and 305: whether a task's hash is verified.
VerifyApplies(task) == verify_hash /\ task.expected_hash # NoneHash

\* Path.unlink(missing_ok=True).
Unlink(d, p) == [d EXCEPT ![p] = NoFile]

\* The greatest number of chunks of a body, each reported by on_progress.
MaxChunks == 1

\* A call of a callback: which one, the task id, and the success and the
\* error passed to on_task_complete.
Call(name, task_id, success, error) ==
    [call |-> name, task_id |-> task_id, success |-> success, error |-> error]

\* The task id on_task_start returns for a task.
TaskId(s) == [id |-> s]
NoTaskId == [id |-> "-"]

\* Lines 271-272: on_task_start, when it is set.
OnTaskStart(c, s) ==
    IF has_callbacks THEN Append(c, Call("on_task_start", NoTaskId, TRUE, "-")) ELSE c

\* Lines 277-281: on_progress for each of n chunks, when it is set.
OnProgress(c, s, n) ==
    IF has_callbacks
    THEN c \o [i \in 1..n |-> Call("on_progress", TaskId(s), TRUE, "-")]
    ELSE c

\* How many chunks a body comes in.
Chunks == IF has_callbacks THEN 0..MaxChunks ELSE {0}

\* Lines 200-202 of download_file: on_task_complete, when it is set and
\* task_id is not None. task_id is what _download_stream returned (line
\* 186), and None when it raised.
OnTaskComplete(c, task_id, success, error) ==
    IF has_callbacks /\ task_id # NoTaskId
    THEN Append(c, Call("on_task_complete", task_id, success, error))
    ELSE c

\* The downloads that hold the semaphore when a download that has failed
\* keeps it.
InProgressOrFailed ==
    {s \in Slugs : dl[s].st \in {"running", "open", "streamed", "hashed", "fail"}}

\* The downloads that hold the semaphore of download_all.
InProgress == {s \in Slugs : dl[s].st \in {"running", "open", "streamed", "hashed"}}

\* A download_file that ended with an error: success is False.
DownloadFailed(d, s, msg) == [d EXCEPT ![s].st = "fail", ![s].error = msg]

\* A result that counts as a success whatever download_file answered.
SuccessUnchecked(s) == dl[s].st \in {"ok", "fail"}

\* DownloadResult.success.
Success(s) == dl[s].st = "ok"

dlFrame == UNCHANGED <<inputVars, ledgerFile, ledger0, pc, idx, pstep, state,
                       state_modified, tasks, update_info, result, final_path, io,
                       live, nOps, checkVars, stateVars, gatewayVars, statusVars,
                       has_callbacks, planVars, cacheVars>>

\* download_with_semaphore: the semaphore is acquired, the request is sent.
DlAcquire(s) ==
    /\ pc = "download"
    /\ dl[s].st = "queued"
    /\ Cardinality(InProgress) < max_concurrent
    /\ dl' = [dl EXCEPT ![s].st = "running"]
    /\ phase' = [phase EXCEPT ![s] = "staging"]
    /\ UNCHANGED <<disk, faults, calls>>
    /\ dlFrame

\* Lines 261-266, 283-287: an error status or a transport error before the
\* file is created. Nothing is on disk; the result is a failure.
DlRequestFail(s) ==
    /\ pc = "download"
    /\ dl[s].st = "running"
    /\ dl' = DownloadFailed(dl, s, "HTTP error")
    /\ phase' = [phase EXCEPT ![s] = "failed"]
    /\ calls' = [calls EXCEPT ![s] = OnTaskComplete(@, NoTaskId, FALSE, "HTTP error")]
    /\ UNCHANGED <<disk, faults>>
    /\ dlFrame

\* Lines 268-275: on_task_start is called; open(task.dest, "wb") creates
\* the staged file, or empties it.
DlOpen(s) ==
    /\ pc = "download"
    /\ dl[s].st = "running"
    /\ disk' = [disk EXCEPT ![Task(s).dest] = Bytes("partial", s)]
    /\ dl' = [dl EXCEPT ![s].st = "open", ![s].file_created = TRUE]
    /\ calls' = [calls EXCEPT ![s] = OnTaskStart(@, s)]
    /\ UNCHANGED <<phase, faults>>
    /\ dlFrame

\* A transport or I/O error after which the partial file is left where it is.
DlStreamFailKeepingPartial(s) ==
    /\ pc = "download"
    /\ dl[s].st = "open"
    /\ disk' = disk
    /\ \E msg \in {"HTTP error", "I/O error"} :
          /\ dl' = DownloadFailed(dl, s, msg)
          /\ \E n \in Chunks :
                calls' = [calls EXCEPT ![s] =
                            OnTaskComplete(OnProgress(@, s, n), NoTaskId, FALSE, msg)]
    /\ phase' = [phase EXCEPT ![s] = "failed"]
    /\ UNCHANGED faults
    /\ dlFrame

\* Lines 283-292: a transport or I/O error while the body is streamed; the
\* partial file is removed.
DlStreamFail(s) ==
    /\ pc = "download"
    /\ dl[s].st = "open"
    /\ disk' = IF dl[s].file_created THEN Unlink(disk, Task(s).dest) ELSE disk
    /\ \E msg \in {"HTTP error", "I/O error"} :
          /\ dl' = DownloadFailed(dl, s, msg)
          /\ \E n \in Chunks :
                calls' = [calls EXCEPT ![s] =
                            OnTaskComplete(OnProgress(@, s, n), NoTaskId, FALSE, msg)]
    /\ phase' = [phase EXCEPT ![s] = "failed"]
    /\ UNCHANGED faults
    /\ dlFrame

\* What is at the staging path when a writer that opened it has written its
\* last chunk of `bytes`: its bytes, when no other writer opened the path
\* meanwhile; nothing, when the path was unlinked under it; and any outcome
\* of two writers on one file otherwise.
WrittenBy(s, bytes, current) ==
    IF current = NoFile THEN {NoFile}
    ELSE IF current = Bytes("partial", s) THEN {bytes}
    ELSE {bytes, current, Garbled}

\* The bytes the remote may serve for a slug's target file: the file, or,
\* where a declared hash tells the difference, other bytes.
Served(s) ==
    IF VerifyApplies(Task(s)) THEN {Bytes("new", s), Bytes("bad", s)} ELSE {Bytes("new", s)}

\* Lines 277-281 and 188-190: the body is complete; the hash is verified
\* next when that applies, and the download has succeeded otherwise.
DlStreamDone(s) ==
    /\ pc = "download"
    /\ dl[s].st = "open"
    /\ \E bytes \in Served(s) :
         \E content \in WrittenBy(s, bytes, disk[Task(s).dest]) :
            disk' = [disk EXCEPT ![Task(s).dest] = content]
    /\ \E n \in Chunks :
          IF VerifyApplies(Task(s))
          THEN /\ dl' = [dl EXCEPT ![s].st = "streamed"]
               /\ calls' = [calls EXCEPT ![s] = OnProgress(@, s, n)]
               /\ UNCHANGED phase
          ELSE /\ dl' = [dl EXCEPT ![s].st = "ok"]
               /\ calls' = [calls EXCEPT ![s] =
                               OnTaskComplete(OnProgress(@, s, n), TaskId(s), TRUE, "-")]
               /\ phase' = [phase EXCEPT ![s] = "verified"]
    /\ UNCHANGED faults
    /\ dlFrame

\* Line 308: compute_sha512 in a worker thread reads the staged file; a
\* missing file raises, which download_file reports as "Unexpected error".
DlHash(s) ==
    /\ pc = "download"
    /\ dl[s].st = "streamed"
    /\ IF disk[Task(s).dest] = NoFile
       THEN /\ dl' = DownloadFailed(dl, s, "Unexpected error")
            /\ calls' = [calls EXCEPT ![s] =
                            OnTaskComplete(@, TaskId(s), FALSE, "Unexpected error")]
            /\ phase' = [phase EXCEPT ![s] = "failed"]
       ELSE /\ dl' = [dl EXCEPT ![s].st = "hashed",
                                ![s].read = compute_sha512(disk[Task(s).dest])]
            /\ UNCHANGED <<phase, calls>>
    /\ UNCHANGED <<disk, faults>>
    /\ dlFrame

\* Lines 309-316: on a mismatch the staged file is removed and the download
\* fails; otherwise it has succeeded.
DlCompare(s) ==
    /\ pc = "download"
    /\ dl[s].st = "hashed"
    /\ IF HashDiffers(dl[s].read, Task(s).expected_hash)
       THEN /\ disk' = Unlink(disk, Task(s).dest)
            /\ dl' = DownloadFailed(dl, s, "Hash mismatch")
            /\ calls' = [calls EXCEPT ![s] =
                            OnTaskComplete(@, TaskId(s), FALSE, "Hash mismatch")]
            /\ phase' = [phase EXCEPT ![s] = "failed"]
       ELSE /\ dl' = [dl EXCEPT ![s].st = "ok"]
            /\ calls' = [calls EXCEPT ![s] = OnTaskComplete(@, TaskId(s), TRUE, "-")]
            /\ phase' = [phase EXCEPT ![s] = "verified"]
            /\ UNCHANGED disk
    /\ UNCHANGED faults
    /\ dlFrame

\* Lines 231-234: gather returns when every download_file has returned.
DownloadAllDone ==
    /\ pc = "download"
    /\ \A i \in 1..Len(tasks) : dl[tasks[i]].st \in {"ok", "fail"}
    /\ pc' = "process"
    /\ idx' = 1
    /\ pstep' = "place"
    /\ UNCHANGED <<inputVars, fsVars, state, state_modified, tasks, update_info,
                   result, final_path, dl, phase, io, faults, live, nOps, checkVars,
                   stateVars, gatewayVars, serviceVars>>

----------------------------------------------------------------------------
(* apply_updates: the loop over the download results, lines 535-604 *)

\* The slug of the download result being processed.
Current == tasks[idx]

\* The time of the batch, for installed_at and the backup's name.
Now == 1

\* Lines 215-216 of place_file: where a staged file is placed.
PlaceDest(s) == Path(get_target_directory(update_info[s]), Task(s).dest.name)

\* Lines 240-245 of backup_file: the timestamped path of a file's backup.
BackupPath(file_path) == Path(BACKUP, file_path.name)

\* Lines 562-566: whether there is an old file to back up and delete, asked
\* once the new file is in place.
HasOldFile(s, d, placed) ==
    /\ Update(s).current_file # NoInstalled
    /\ d[Update(s).current_file.file_path] # NoFile
    /\ Update(s).current_file.file_path # placed

\* A record that stores no digest of the new file.
NewRecordUnhashed(s, placed) ==
    InstalledFile(s, update_info[s], placed.name, Update(s).latest_version_id,
                  Update(s).latest_version, EmptyStr, Now, placed)

\* Lines 579-588: the record of the newly installed file.
NewRecord(s, placed) ==
    InstalledFile(s, update_info[s], placed.name, Update(s).latest_version_id,
                  Update(s).latest_version, GetSha512OrEmpty(Update(s).latest_file),
                  Now, placed)

\* The end of one pass of the loop.
NextResult ==
    /\ idx' = IF idx < Len(tasks) THEN idx + 1 ELSE 1
    /\ pc' = IF idx < Len(tasks) THEN "process" ELSE "save"
    /\ pstep' = "place"
    /\ final_path' = NoPath

\* A handler that records the failure and leaves the placed file where it is.
ExceptHandlerWithoutRollback(s, msg) ==
    /\ disk' = disk
    /\ faults' = faults \cup {<<s, msg>>}
    /\ result' = AppendFailed(result, s, msg)
    /\ phase' = [phase EXCEPT ![s] = "failed"]
    /\ NextResult

\* Lines 594-604: the handler of the try block. The placed file, when there
\* is one, is deleted unless that deletion fails too; the slug has failed.
ExceptHandler(s, msg) ==
    /\ \/ /\ final_path # NoPath /\ disk[final_path] # NoFile
          /\ disk' = Unlink(disk, final_path)
          /\ faults' = faults \cup {<<s, msg>>}
       \/ /\ final_path # NoPath /\ disk[final_path] # NoFile
          /\ disk' = disk
          /\ faults' = faults \cup {<<s, msg>>, <<s, "rollback">>}
       \/ /\ ~(final_path # NoPath /\ disk[final_path] # NoFile)
          /\ disk' = disk
          /\ faults' = faults \cup {<<s, msg>>}
    /\ result' = AppendFailed(result, s, msg)
    /\ phase' = [phase EXCEPT ![s] = "failed"]
    /\ NextResult

procFrame == UNCHANGED <<inputVars, ledgerFile, ledger0, tasks, update_info, dl, io,
                         live, nOps, checkVars, stateVars, gatewayVars, serviceVars>>

\* A pass that also drops the ledger entry of the slug whose download failed.
ProcessFailedDownloadDroppingRecord ==
    /\ pc = "process" /\ pstep = "place"
    /\ ~Success(Current)
    /\ result' = AppendFailed(result, Current, dl[Current].error)
    /\ state' = [state EXCEPT !.files = DictDel(@, Current)]
    /\ state_modified' = TRUE
    /\ NextResult
    /\ UNCHANGED <<disk, phase, faults>>
    /\ procFrame

\* Lines 537-541: a failed download is recorded with its error.
ProcessFailedDownload ==
    /\ pc = "process" /\ pstep = "place"
    /\ ~Success(Current)
    /\ result' = AppendFailed(result, Current, dl[Current].error)
    /\ NextResult
    /\ UNCHANGED <<disk, state, state_modified, phase, faults>>
    /\ procFrame

\* Lines 557-559 and place_file: the staged file is moved into the target
\* directory.
PlaceFile ==
    /\ pc = "process" /\ pstep = "place"
    /\ Success(Current)
    /\ disk[Task(Current).dest] # NoFile
    /\ LET src == Task(Current).dest
           dest == PlaceDest(Current)
           moved == [disk EXCEPT ![dest] = disk[src], ![src] = NoFile]
       IN /\ disk' = moved
          /\ final_path' = dest
          /\ pstep' = IF HasOldFile(Current, moved, dest)
                      THEN IF backup THEN "backup" ELSE "delete"
                      ELSE "update"
    /\ phase' = [phase EXCEPT ![Current] = "placed"]
    /\ UNCHANGED <<pc, idx, state, state_modified, result, faults>>
    /\ procFrame

\* place_file raises FileOperationError: the staged file is not there, or the
\* move fails. final_path is still None, so nothing is rolled back.
PlaceFileRaises ==
    /\ pc = "process" /\ pstep = "place"
    /\ Success(Current)
    /\ IF disk[Task(Current).dest] = NoFile
       THEN faults' = faults
       ELSE faults' = faults \cup {<<Current, "Failed to move file">>}
    /\ result' = AppendFailed(result, Current, "Failed to move file")
    /\ phase' = [phase EXCEPT ![Current] = "failed"]
    /\ NextResult
    /\ UNCHANGED <<disk, state, state_modified>>
    /\ procFrame

\* Lines 567-571 and backup_file: the old file is copied to its backup.
BackupFile ==
    /\ pc = "process" /\ pstep = "backup"
    /\ LET old == Update(Current).current_file.file_path IN
          /\ disk' = [disk EXCEPT ![BackupPath(old)] = disk[old]]
          /\ result' = [result EXCEPT !.backed_up = Append(@, BackupPath(old))]
    /\ pstep' = "delete"
    /\ UNCHANGED <<pc, idx, state, state_modified, final_path, phase, faults>>
    /\ procFrame

\* backup_file raises FileOperationError.
BackupFileRaises ==
    /\ pc = "process" /\ pstep = "backup"
    /\ ExceptHandler(Current, "Failed to backup file")
    /\ UNCHANGED <<state, state_modified>>
    /\ procFrame

\* Line 572 and delete_file: the old file is deleted.
DeleteOldFile ==
    /\ pc = "process" /\ pstep = "delete"
    /\ disk' = Unlink(disk, Update(Current).current_file.file_path)
    /\ pstep' = "update"
    /\ UNCHANGED <<pc, idx, state, state_modified, result, final_path, phase, faults>>
    /\ procFrame

\* delete_file raises FileOperationError.
DeleteOldFileRaises ==
    /\ pc = "process" /\ pstep = "delete"
    /\ ExceptHandler(Current, "Failed to delete file")
    /\ UNCHANGED <<state, state_modified>>
    /\ procFrame

\* A ledger update that also writes the ledger file for each slug.
UpdateStateAndSave ==
    /\ pc = "process" /\ pstep = "update"
    /\ state' = [state EXCEPT !.files = DictSet(@, Current, NewRecord(Current, final_path))]
    /\ state_modified' = TRUE
    /\ result' = [result EXCEPT !.successful = Append(@, Current)]
    /\ phase' = [phase EXCEPT ![Current] = "ledger_updated"]
    /\ NextResult
    /\ ledgerFile' = DumpState(state')
    /\ io' = [io EXCEPT !.saves = @ + 1]
    /\ UNCHANGED <<disk, faults, inputVars, ledger0, tasks, update_info, dl, live,
                   nOps, checkVars, stateVars, gatewayVars, serviceVars>>

\* Lines 579-592: the in-memory ledger entry of the slug is set.
UpdateState ==
    /\ pc = "process" /\ pstep = "update"
    /\ state' = [state EXCEPT !.files = DictSet(@, Current, NewRecord(Current, final_path))]
    /\ state_modified' = TRUE
    /\ result' = [result EXCEPT !.successful = Append(@, Current)]
    /\ phase' = [phase EXCEPT ![Current] = "ledger_updated"]
    /\ NextResult
    /\ UNCHANGED <<disk, faults>>
    /\ procFrame

----------------------------------------------------------------------------
(* apply_updates: the save at the end, lines 606-610, and _save_state *)

saveFrame == UNCHANGED <<inputVars, disk, ledger0, idx, pstep, state, state_modified,
                         tasks, update_info, result, final_path, dl, phase, nOps,
                         checkVars, stateVars, gatewayVars, serviceVars>>

\* Line 607 with nothing modified: apply_updates returns.
ReturnUnmodified ==
    /\ pc = "save"
    /\ ~state_modified
    /\ pc' = "done"
    /\ UNCHANGED <<ledgerFile, io, faults, live>>
    /\ saveFrame

\* _save_state, lines 146-147: the file is opened for writing.
SaveOpen ==
    /\ pc = "save"
    /\ state_modified
    /\ ledgerFile' = OpenForWriting(ledgerFile)
    /\ io' = [io EXCEPT !.saves = @ + 1]
    /\ pc' = "saving"
    /\ UNCHANGED <<faults, live>>
    /\ saveFrame

\* _save_state, line 148 and the end of the with block: the document is
\* written; apply_updates returns.
SaveWrite ==
    /\ pc = "saving"
    /\ ledgerFile' = WriteDocument(state)
    /\ pc' = "done"
    /\ live' = live \cup SuccessfulSlugs
    /\ UNCHANGED <<io, faults>>
    /\ saveFrame

\* _save_state, lines 150-154: mkdir or open fails with OSError and the
\* file is as it was, or the write fails after open has emptied the file;
\* apply_updates raises StateFileError.
SaveRaises ==
    /\ \/ /\ pc = "save"
          /\ state_modified
          /\ io' = [io EXCEPT !.saves = @ + 1]
       \/ /\ pc = "saving"
          /\ UNCHANGED io
    /\ pc' = "raised"
    /\ faults' = faults \cup {<<"-", "save">>}
    /\ UNCHANGED <<ledgerFile, live>>
    /\ saveFrame

\* A cancellation whose cleanup saves the ledger as far as the batch got.
CancelAndSave ==
    /\ pc \in {"prepare", "download", "process", "save"}
    /\ pc' = "cancelled"
    /\ idx' = 1
    /\ pstep' = "place"
    /\ state' = StateFile(STATE_VERSION, {})
    /\ state_modified' = FALSE
    /\ tasks' = <<>>
    /\ update_info' = [s \in Slugs |-> "-"]
    /\ result' = EmptyResult
    /\ final_path' = NoPath
    /\ dl' = [s \in Slugs |-> NoDownload]
    /\ ledgerFile' = IF state_modified THEN DumpState(state) ELSE ledgerFile
    /\ UNCHANGED <<inputVars, disk, ledger0, phase, io, faults, live, nOps, checkVars,
                   stateVars, gatewayVars, serviceVars>>

\* The task running apply_updates is cancelled before the save: the
\* coroutine and its downloads end there, and its locals are gone.
Cancel ==
    /\ pc \in {"prepare", "download", "process", "save"}
    /\ pc' = "cancelled"
    /\ idx' = 1
    /\ pstep' = "place"
    /\ state' = StateFile(STATE_VERSION, {})
    /\ state_modified' = FALSE
    /\ tasks' = <<>>
    /\ update_info' = [s \in Slugs |-> "-"]
    /\ result' = EmptyResult
    /\ final_path' = NoPath
    /\ dl' = [s \in Slugs |-> NoDownload]
    /\ UNCHANGED <<inputVars, fsVars, phase, io, faults, live, nOps, checkVars,
                   stateVars, gatewayVars, serviceVars>>

----------------------------------------------------------------------------
(* The ledger operations outside a batch: _save_installed_file and
   _remove_installed_file *)

\* How many ledger operations a run makes around its batch.
MaxLedgerOps == 2

\* No apply_updates is in progress.
NoBatchRunning == pc \in {"start", "done", "raised", "cancelled"}

\* The records the callers of _save_installed_file pass for a slug.
InstalledBy(s, vid) ==
    InstalledFile(s, RemoteProjectType(s), OldName(s), vid, vid,
                  Hex(Bytes("old", s), FALSE), 0,
                  Path(get_target_directory(RemoteProjectType(s)), OldName(s)))

ledgerFrame == UNCHANGED <<inputVars, disk, ledger0, applyVars, phase, io, faults,
                           checkVars, stateVars, gatewayVars, serviceVars>>

\* _save_installed_file: load, set the slug's entry, save. The load raises
\* on an unreadable file; the save writes the document, or fails with the
\* file already opened for writing.
SaveInstalledFile(installed) ==
    /\ NoBatchRunning
    /\ nOps < MaxLedgerOps
    /\ nOps' = nOps + 1
    /\ LET loaded == _load_state(ledgerFile)
           new_state == [loaded.state EXCEPT
                           !.files = DictSet(@, installed.slug, installed)]
       IN \/ /\ ~loaded.ok
             /\ UNCHANGED <<ledgerFile, live>>
          \/ /\ loaded.ok
             /\ ledgerFile' = WriteDocument(new_state)
             /\ live' = live \cup {installed.slug}
          \/ /\ loaded.ok
             /\ ledgerFile' = OpenForWriting(ledgerFile)
             /\ UNCHANGED live
    /\ ledgerFrame

\* _remove_installed_file: load, and when the slug has an entry, delete it
\* and save.
RemoveInstalledFile(s) ==
    /\ NoBatchRunning
    /\ nOps < MaxLedgerOps
    /\ nOps' = nOps + 1
    /\ LET loaded == _load_state(ledgerFile)
           new_state == [loaded.state EXCEPT !.files = DictDel(@, s)]
       IN \/ /\ ~loaded.ok
             /\ UNCHANGED <<ledgerFile, live>>
          \/ /\ loaded.ok /\ ~DictHas(loaded.state.files, s)
             /\ UNCHANGED <<ledgerFile, live>>
          \/ /\ loaded.ok /\ DictHas(loaded.state.files, s)
             /\ ledgerFile' = WriteDocument(new_state)
             /\ live' = live \ {s}
          \/ /\ loaded.ok /\ DictHas(loaded.state.files, s)
             /\ ledgerFile' = OpenForWriting(ledgerFile)
             /\ UNCHANGED live
    /\ ledgerFrame

----------------------------------------------------------------------------
(* The remote versions and the resolver: filter_compatible_versions and
   get_latest_compatible_version *)

RELEASE == "release"
BETA == "beta"
ALPHA == "alpha"
ReleaseChannel == {RELEASE, BETA, ALPHA}

\* A channel order in which beta is the most unstable channel.
channel_order_beta_last(c) == CASE c = RELEASE -> 0 [] c = ALPHA -> 1 [] c = BETA -> 2

\* channel_order of filter_compatible_versions.
channel_order(c) == CASE c = RELEASE -> 0 [] c = BETA -> 1 [] c = ALPHA -> 2

\* str.lower() on the loader names that occur.
StrLower(n) ==
    CASE n = "Fabric" -> "fabric"
      [] n = "FABRIC" -> "fabric"
      [] n = "Forge" -> "forge"
      [] OTHER -> n

\* AppConfig.minecraft_version and AppConfig.loader of the run.
minecraft_version == "1.21"
loader == "fabric"

\* A ProjectVersion, and the None in its place.
ProjectVersion(id, num, type, games, loaders, date, files) ==
    [id |-> id, version_number |-> num, version_type |-> type,
     game_versions |-> games, loaders |-> loaders, date_published |-> date,
     files |-> files]
NoVersion == ProjectVersion("-", "-", RELEASE, {}, {}, 0, <<>>)

\* The checks with the loader names compared as they are spelled.
PassesFilterAsSpelled(version, mc, ld, ch) ==
    /\ mc \in version.game_versions
    /\ ld \in version.loaders
    /\ ~(channel_order(version.version_type) > channel_order(ch))

\* The three checks of the loop of filter_compatible_versions.
PassesFilter(version, mc, ld, ch) ==
    /\ mc \in version.game_versions
    /\ \E name \in version.loaders : StrLower(ld) = StrLower(name)
    /\ ~(channel_order(version.version_type) > channel_order(ch))

\* An insertion that puts a version before the ones of its date.
RECURSIVE InsertBeforeTies(_, _)
InsertBeforeTies(sorted, v) ==
    IF sorted = <<>> THEN <<v>>
    ELSE IF Head(sorted).date_published > v.date_published
         THEN <<Head(sorted)>> \o InsertBeforeTies(Tail(sorted), v)
         ELSE <<v>> \o sorted

\* The list as it is, not sorted.
NotSorted(seq) == seq

\* list.sort(key=date_published, reverse=True): a stable sort, so versions
\* of one date keep the order they had.
RECURSIVE InsertByDate(_, _)
InsertByDate(sorted, v) ==
    IF sorted = <<>> THEN <<v>>
    ELSE IF Head(sorted).date_published >= v.date_published
         THEN <<Head(sorted)>> \o InsertByDate(Tail(sorted), v)
         ELSE <<v>> \o sorted

RECURSIVE SortNewestFirst(_)
SortNewestFirst(seq) ==
    IF seq = <<>> THEN <<>>
    ELSE InsertByDate(SortNewestFirst(SubSeq(seq, 1, Len(seq) - 1)), seq[Len(seq)])

filter_compatible_versions(versions, mc, ld, ch) ==
    LET Test(v) == PassesFilter(v, mc, ld, ch)
    IN SortNewestFirst(SelectSeq(versions, Test))

get_latest_compatible_version(versions, mc, ld, ch) ==
    LET compatible == filter_compatible_versions(versions, mc, ld, ch)
    IN IF compatible # <<>> THEN compatible[1] ELSE NoVersion

----------------------------------------------------------------------------
(* check_updates *)

\* The declarations passed to check_updates.
projects ==
    [i \in 1..Len(SlugOrder) |-> [slug |-> SlugOrder[i], channel |-> channel[SlugOrder[i]]]]

\* The files a version of slug s may list: the installed file under a
\* digest spelled in the other case; a new file, flagged primary, behind an
\* unflagged one; an unflagged new file without a sha512.
SameFiles(s) ==
    <<ProjectFile(OldName(s), Hex(Bytes("old", s), s = "a"), TRUE)>>
NewFiles(s) ==
    <<ProjectFile("sources.jar", Hex(Bytes("aux", s), FALSE), FALSE),
      ProjectFile("new.jar", Hex(Bytes("new", s), FALSE), TRUE)>>
UnhashedFiles(s) ==
    <<ProjectFile("new.jar", NoneHash, FALSE)>>

\* The versions get_versions may list for slug s.
VSame(s) == ProjectVersion("v1", "1.0", RELEASE, {"1.21"}, {"fabric"}, 1, SameFiles(s))
VNew(s) == ProjectVersion("v2", "2.0", RELEASE, {"1.20", "1.21"}, {"Fabric", "quilt"}, 2,
                          NewFiles(s))
VTie(s) == ProjectVersion("v1b", "1.0b", RELEASE, {"1.21"}, {"fabric"}, 1, NewFiles(s))
VBeta(s) == ProjectVersion("v3", "3.0-beta", BETA, {"1.21"}, {"fabric"}, 3, NewFiles(s))
VAlpha(s) == ProjectVersion("v4", "4.0-alpha", ALPHA, {"1.21"}, {"FABRIC"}, 4,
                            UnhashedFiles(s))
VOldGame(s) == ProjectVersion("v5", "5.0", RELEASE, {"1.20"}, {"fabric"}, 5, NewFiles(s))
VForge(s) == ProjectVersion("v6", "6.0", RELEASE, {"1.21"}, {"Forge"}, 5, NewFiles(s))
VNoFiles(s) == ProjectVersion("v7", "7.0", RELEASE, {"1.21"}, {"fabric"}, 2, <<>>)

\* What get_versions does for a slug: it raises, or returns a list.
Raises(msg) == [raises |-> TRUE, error |-> msg, versions |-> <<>>]
Returns(versions) == [raises |-> FALSE, error |-> "-", versions |-> versions]
NoAnswer == Returns(<<>>)
Answers(s) ==
    {Raises("Project not found"), Raises("Request timed out"),
     Returns(<<>>),
     Returns(<<VSame(s)>>),
     Returns(<<VNew(s)>>),
     Returns(<<VSame(s), VNew(s)>>),
     Returns(<<VAlpha(s), VSame(s), VBeta(s)>>),
     Returns(<<VOldGame(s), VForge(s)>>),
     Returns(<<VNoFiles(s)>>),
     Returns(<<VSame(s), VTie(s)>>),
     Returns(<<VTie(s), VSame(s)>>)}

\* An UpdateCheckResult.
UpdateCheckResult(s, status, cv, cf, lv, lvid, lf, err) ==
    [slug |-> s, status |-> status, current_version |-> cv, current_file |-> cf,
     latest_version |-> lv, latest_version_id |-> lvid, latest_file |-> lf,
     error |-> err]

\* A comparison of the digests as they are spelled.
needs_update_as_spelled(installed, latest) ==
    IF latest = NoProjectFile THEN FALSE
    ELSE installed.sha512 # GetSha512OrEmpty(latest)

\* needs_update: whether the digests differ, whatever the case of their
\* letters; no update when there is no latest file.
needs_update(installed, latest) ==
    IF latest = NoProjectFile THEN FALSE
    ELSE Lower(installed.sha512) # Lower(GetSha512OrEmpty(latest))

\* A choice that takes the first file whatever the flags are.
FirstFileAlways(files) == IF files # <<>> THEN files[1] ELSE NoProjectFile

\* Lines 451-454: the first file flagged primary, else the first file, else
\* None.
PrimaryFile(files) ==
    IF \E i \in 1..Len(files) : files[i].primary
    THEN files[CHOOSE i \in 1..Len(files) :
                 files[i].primary /\ \A j \in 1..(i - 1) : ~files[j].primary]
    ELSE IF files # <<>> THEN files[1] ELSE NoProjectFile

\* What a call ends with: an exception, or a value.
Raised(msg) == [raised |-> TRUE, error |-> msg, value |-> NoInstalled]
Returned(v) == [raised |-> FALSE, error |-> "-", value |-> v]

\* get_installed_file: the slug's entry of the loaded ledger.
get_installed_file(s) ==
    LET loaded == _load_state(ledgerFile)
    IN IF loaded.ok THEN Returned(DictGetOrNone(loaded.state.files, s))
       ELSE Raised("Failed to parse state file")

\* _check_single_update: the result for one declaration, or the exception
\* of the ledger read or of get_versions.
_check_single_update(project) ==
    LET s == project.slug
        got == get_installed_file(s)
        installed == got.value
        current_version == IF installed # NoInstalled THEN installed.version_number
                           ELSE "-"
        latest == get_latest_compatible_version(remote[s].versions, minecraft_version,
                                                loader, project.channel)
        primary_file == PrimaryFile(latest.files)
        status == IF installed = NoInstalled THEN NOT_INSTALLED
                  ELSE IF needs_update(installed, primary_file) THEN OUTDATED
                  ELSE INSTALLED
    IN IF got.raised THEN Raised(got.error)
       ELSE IF remote[s].raises THEN Raised(remote[s].error)
       ELSE IF latest = NoVersion
            THEN Returned(UpdateCheckResult(s, NOT_COMPATIBLE, current_version, installed,
                                            "-", "-", NoProjectFile, "-"))
            ELSE Returned(UpdateCheckResult(s, status, current_version, installed,
                                            latest.version_number, latest.id,
                                            primary_file, "-"))

checkFrame == UNCHANGED <<inputVars, fsVars, applyVars, histVars, nOps, channel, remote,
                          stateVars, gatewayVars, serviceVars>>

\* One pass of the loop without its try block: an exception leaves
\* check_updates.
CheckProjectUnguarded ==
    /\ cpc = "loop"
    /\ cidx <= Len(projects)
    /\ LET outcome == _check_single_update(projects[cidx])
       IN IF outcome.raised
          THEN cpc' = "raised" /\ UNCHANGED <<results, cidx>>
          ELSE /\ results' = Append(results, outcome.value)
               /\ cidx' = cidx + 1
               /\ cpc' = cpc
    /\ checkFrame

\* One pass of a loop that puts each result in front of the earlier ones.
CheckProjectPrepending ==
    /\ cpc = "loop"
    /\ cidx <= Len(projects)
    /\ LET project == projects[cidx]
           outcome == _check_single_update(project)
       IN results' = <<IF outcome.raised
                       THEN UpdateCheckResult(project.slug, CHECK_FAILED, "-", NoInstalled,
                                              "-", "-", NoProjectFile, outcome.error)
                       ELSE outcome.value>> \o results
    /\ cidx' = cidx + 1
    /\ cpc' = cpc
    /\ checkFrame

\* Lines 401-417: one pass of the loop of check_updates. The result of
\* _check_single_update is appended, or a CHECK_FAILED result carrying the
\* message of what it raised.
CheckProject ==
    /\ cpc = "loop"
    /\ cidx <= Len(projects)
    /\ LET project == projects[cidx]
           outcome == _check_single_update(project)
       IN results' = Append(results,
              IF outcome.raised
              THEN UpdateCheckResult(project.slug, CHECK_FAILED, "-", NoInstalled,
                                     "-", "-", NoProjectFile, outcome.error)
              ELSE outcome.value)
    /\ cidx' = cidx + 1
    /\ cpc' = cpc
    /\ checkFrame

\* Line 419: the loop is over; check_updates returns the results.
CheckReturn ==
    /\ cpc = "loop"
    /\ cidx > Len(projects)
    /\ cpc' = "done"
    /\ UNCHANGED <<results, cidx>>
    /\ checkFrame

----------------------------------------------------------------------------
(* The specification of one apply_updates batch *)

\* The filenames of the target files: all different, or two the same.
NamePatterns ==
    {[s \in Slugs |-> CASE s = "a" -> "x.jar" [] s = "b" -> "y.jar" [] OTHER -> "z.jar"],
     [s \in Slugs |-> CASE s = "a" -> "x.jar" [] s = "b" -> "x.jar" [] OTHER -> "z.jar"],
     [s \in Slugs |-> CASE s = "a" -> "x.jar" [] s = "b" -> "y.jar" [] OTHER -> "y.jar"]}

InitInputs ==
    /\ kind \in [Slugs -> Kinds]
    /\ fname \in NamePatterns
    /\ oldCase \in {"other", "missing", "same", "shared"}
    /\ verify_hash \in BOOLEAN
    /\ backup \in BOOLEAN
    \* inputs that are not read are not varied
    /\ (\A s \in Slugs : kind[s] # "update") => (oldCase = "other" /\ backup)
    /\ oldCase # "other" => backup
    /\ oldCase = "shared" => (kind["b"] = "update" /\ kind["c"] = "update")
    /\ (\A s \in Slugs : kind[s] \notin {"install", "update"}) =>
           (verify_hash /\ fname = [s \in Slugs |->
               CASE s = "a" -> "x.jar" [] s = "b" -> "y.jar" [] OTHER -> "z.jar"])
    \* two records never name one file
    /\ \A s, u \in Slugs : (s # u /\ HasRecord(s) /\ HasRecord(u)) => OldPath(s) # OldPath(u)

\* check_updates is not running.
CheckIdle ==
    /\ channel = [s \in Slugs |-> "release"]
    /\ remote = [s \in Slugs |-> NoAnswer]
    /\ results = <<>>
    /\ cpc = "idle"
    /\ cidx = 1

\* _save_state and _load_state are not called on their own.
StateIdle ==
    /\ lpc = "idle"
    /\ given = StateFile(STATE_VERSION, {})
    /\ answer = LoadReturns(StateFile(STATE_VERSION, {}))

\* A call that has not been made, and a list a call has returned.
NotCalled == [called |-> FALSE, versions |-> <<>>]
Called(versions) == [called |-> TRUE, versions |-> versions]

\* RateLimitError.retry_after: None, or a number of seconds.
NoSeconds == [none |-> TRUE, seconds |-> 0]
Seconds(n) == [none |-> FALSE, seconds |-> n]

\* No exception, and an exception with its attributes.
NoException == [type |-> "-", status_code |-> 0, slug |-> "-", retry_after |-> NoSeconds]
Exception(type, code, s, after) ==
    [type |-> type, status_code |-> code, slug |-> s, retry_after |-> after]

\* The version filter and _request are not called.
GatewayIdle ==
    /\ given_versions = <<>>
    /\ wanted = [minecraft_version |-> minecraft_version, loader |-> loader,
                 channel |-> RELEASE]
    /\ filtered = [c \in ReleaseChannel |-> NotCalled]
    /\ chosen = {}
    /\ max_retries = 0
    /\ backoff_factor = 1
    /\ slug_arg = [slug |-> "-", path |-> "-"]
    /\ attempt = 0
    /\ sent = <<>>
    /\ slept = <<>>
    /\ rpc = "idle"
    /\ thrown = NoException

\* The Downloader of ProjectManager.__aenter__, lines 66-73: no callback is
\* set.
NoCallbacks ==
    /\ has_callbacks = FALSE
    /\ calls = [s \in Slugs |-> <<>>]

\* No apply_updates has run before.
NoEarlierCall ==
    [called |-> FALSE, successful |-> {}, disk |-> <<>>, ledgerFile |-> <<>>]
FirstCall == previous = NoEarlierCall

\* A value the cache is given: a dict or a list; None.
Data(type, items) == [type |-> type, items |-> items]
NoData == Data("None", <<>>)

\* A cache entry, and the None of dict.get; the last call of the cache
\* and what it was given or what it returned.
CacheEntry(ts, data) == [ts |-> ts, data |-> data]
NoEntry == [ts |-> -1, data |-> NoData]
Namespaces == {"project", "versions"}
NotFetched == [op |-> "-", namespace |-> "-", slug |-> "-", value |-> NoData, at |-> -1]

\* The slugs the cache is asked about.
CacheSlugs == {"a", "b"}

\* Lines 17-20: the data of a cache without entries.
EmptyCache == [n \in Namespaces |-> [s \in CacheSlugs |-> NoEntry]]

\* The cache file: absent, cut short by a failed write, or the JSON text
\* of the data.
CacheFile(k, data) == [kind |-> k, data |-> data]
AbsentCacheFile == CacheFile("absent", <<>>)
PartialCacheFile == CacheFile("partial", <<>>)

\* The ApiCache is not used.
CacheIdle ==
    /\ ttl_seconds = 0
    /\ clock = 0
    /\ cache = EmptyCache
    /\ cache_file = AbsentCacheFile
    /\ sets = 0
    /\ last_set = EmptyCache
    /\ fetched = NotFetched

\* get_install_status is not called.
StatusIdle ==
    /\ spc = "idle"
    /\ asked = "-"
    /\ install_status = "-"

\* The operations next to apply_updates and check_updates are not running.
ServiceIdle == StatusIdle /\ NoCallbacks /\ FirstCall /\ CacheIdle

\* apply_updates has been called and has not started.
ApplyCalled ==
    /\ pc = "start"
    /\ idx = 1
    /\ pstep = "place"
    /\ state = StateFile(STATE_VERSION, {})
    /\ state_modified = FALSE
    /\ tasks = <<>>
    /\ update_info = [s \in Slugs |-> "-"]
    /\ result = EmptyResult
    /\ final_path = NoPath
    /\ dl = [s \in Slugs |-> NoDownload]
    /\ phase = [s \in Slugs |-> "none"]
    /\ io = [loads |-> 0, saves |-> 0]
    /\ faults = {}

Init ==
    /\ InitInputs
    /\ max_concurrent = MaxConcurrent
    /\ disk = InitialDisk
    /\ ledger0 \in {IF InitialState.files = {} THEN AbsentDoc ELSE DumpState(InitialState),
                    PartialDoc}
    /\ ledgerFile = ledger0
    /\ live = DictKeys(ledger0.files)
    /\ nOps = 0
    /\ ApplyCalled
    /\ ServiceIdle
    /\ CheckIdle
    /\ StateIdle
    /\ GatewayIdle

Download ==
    \E s \in Slugs :
        \/ DlAcquire(s)
        \/ DlRequestFail(s)
        \/ DlOpen(s)
        \/ DlStreamFail(s)
        \/ DlStreamDone(s)
        \/ DlHash(s)
        \/ DlCompare(s)

Next ==
    \/ ApplyBegin
    \/ Prepare
    \/ Download
    \/ DownloadAllDone
    \/ ProcessFailedDownload
    \/ PlaceFile
    \/ PlaceFileRaises
    \/ BackupFile
    \/ BackupFileRaises
    \/ DeleteOldFile
    \/ DeleteOldFileRaises
    \/ UpdateState
    \/ ReturnUnmodified
    \/ SaveOpen
    \/ SaveWrite
    \/ SaveRaises
    \/ Cancel

Spec == Init /\ [][Next]_vars

----------------------------------------------------------------------------
(* The specification of ledger operations around a batch *)

\* The batches of the runs with ledger operations: at most two actionable
\* entries, with different filenames.
InitLedger ==
    /\ Init
    /\ kind["c"] = "skip"
    /\ kind["b"] \in {"skip", "install"}
    /\ fname["a"] # fname["b"]
    /\ ledger0.kind # "partial"

NextLedger ==
    \/ Next
    \/ \E s \in Slugs : SaveInstalledFile(InstalledBy(s, "v9"))
    \/ \E s \in Slugs : RemoveInstalledFile(s)

SpecLedger == InitLedger /\ [][NextLedger]_vars

----------------------------------------------------------------------------
(* The specification of check_updates *)

\* The ledger of the runs of check_updates: a has a record, b has one whose
\* digest is spelled in upper case, c has none; or the file is unreadable.
CheckedLedger ==
    StateFile(STATE_VERSION,
              {[key |-> "a", val |-> InstalledBy("a", "v1")],
               [key |-> "b", val |-> [InstalledBy("b", "v1") EXCEPT
                                        !.sha512 = Hex(Bytes("old", "b"), TRUE)]]})

\* The files on disk in those runs: the recorded files, but for those of
\* the slugs in `missing`, which were deleted behind the ledger's back.
CheckedDisk(missing) ==
    [p \in Paths |->
        IF \E e \in CheckedLedger.files : e.val.file_path = p /\ e.key \notin missing
        THEN Bytes("old", (CHOOSE e \in CheckedLedger.files : e.val.file_path = p).key)
        ELSE NoFile]

\* The channels of the declarations: one for all, or one each.
ChannelPatterns ==
    {[s \in Slugs |-> c] : c \in ReleaseChannel} \cup
    {[s \in Slugs |-> CASE s = "a" -> BETA [] s = "b" -> ALPHA [] OTHER -> RELEASE]}

InitCheck ==
    /\ kind = [s \in Slugs |-> "skip"]
    /\ fname = [s \in Slugs |-> CASE s = "a" -> "x.jar" [] s = "b" -> "y.jar" [] OTHER -> "z.jar"]
    /\ oldCase = "other"
    /\ verify_hash = TRUE
    /\ backup = TRUE
    /\ max_concurrent = MaxConcurrent
    /\ disk \in {CheckedDisk({}), CheckedDisk({"a"})}
    /\ ledger0 \in {DumpState(CheckedLedger), PartialDoc}
    /\ ledgerFile = ledger0
    /\ live = DictKeys(ledger0.files)
    /\ nOps = 0
    /\ ApplyCalled
    /\ ServiceIdle
    /\ StateIdle
    /\ GatewayIdle
    /\ channel \in ChannelPatterns
    /\ \E ra \in Answers("a"), rb \in Answers("b"), rc \in Answers("c") :
           remote = [s \in Slugs |-> CASE s = "a" -> ra [] s = "b" -> rb [] OTHER -> rc]
    /\ results = <<>>
    /\ cpc = "loop"
    /\ cidx = 1

NextCheck ==
    \/ CheckProject
    \/ CheckReturn

SpecCheck == InitCheck /\ [][NextCheck]_vars

----------------------------------------------------------------------------
(* Claims about apply_updates *)


\* Where a slug's target file belongs once installed.
TargetOf(s) == Path(get_target_directory(RemoteProjectType(s)), fname[s])

\* The actionable entries that have a target file.
WithTargetFile ==
    {s \in Slugs : Update(s).status \in Actionable /\ Update(s).latest_file # NoProjectFile}

\* The slugs whose download_file returned success = False.
FailedDownloads == {s \in Slugs : dl[s].st = "fail"}

\* The ledger before the batch, as _load_state reads it.
StateBefore == _load_state(ledger0).state

\* C1: a batch of N actionable entries with a target file, of which exactly
\* one download fails and in which nothing else goes wrong (the ledger is
\* readable, get_project answers, no file or ledger operation fails),
\* returns without raising, with N-1 slugs in successful and one in failed,
\* and the persisted ledger has an entry for each successful slug.
C1_PartialFailureIsolation ==
    ( /\ pc \in {"done", "raised"}
      /\ ledger0.kind # "partial"
      /\ faults = {}
      /\ \A s \in Slugs : kind[s] # "nofile"
      /\ Cardinality(FailedDownloads) = 1 )
    => /\ pc = "done"
       /\ Len(result.successful) = Cardinality(WithTargetFile) - 1
       /\ Len(result.failed) = 1
       /\ ledgerFile.kind # "partial"
       /\ SuccessfulSlugs \subseteq DictKeys(ledgerFile.files)

\* Whether the verification of a slug's download has compared the digest of
\* the staged bytes with the declared one and they differ, whatever the case
\* of their letters.
DigestCompared(s) == dl[s].st \in {"ok", "fail"} /\ dl[s].read # EmptyStr
DigestMismatch(s) ==
    /\ DigestCompared(s)
    /\ [dl[s].read EXCEPT !.upper = FALSE] # [Task(s).expected_hash EXCEPT !.upper = FALSE]

\* The contents a slug's download writes.
DownloadedBy(s) == {Bytes("new", s), Bytes("bad", s), Bytes("partial", s)}

\* C2: with verification on and a declared sha512, a download whose staged
\* bytes have another digest fails with a hash-mismatch error, its staged
\* file is deleted, it is never placed nor reported successful, and no file
\* of that download is in a target directory (or anywhere on disk).
C2_HashGate ==
    \A s \in Slugs :
        DigestMismatch(s) =>
            /\ dl[s].st = "fail" /\ dl[s].error = "Hash mismatch"
            /\ phase[s] = "failed"
            /\ s \notin SuccessfulSlugs
            /\ \A p \in Paths : disk[p] \notin DownloadedBy(s)
            /\ (pc \in {"save", "saving", "done", "raised"}
                    => FailedWith(s, "Hash mismatch"))

C2_Witness ==
    \E s \in Slugs :
        /\ pc = "done"
        /\ DigestMismatch(s)
        /\ FailedWith(s, "Hash mismatch")
        /\ SuccessfulSlugs # {}

\* The entry of a slug in a files dict, None when there is none.
Entry(files, s) == IF \E e \in files : e.key = s
                   THEN (CHOOSE e \in files : e.key = s).val
                   ELSE NoInstalled

RaisedAfterPlacement(s) ==
    FailedWith(s, "Failed to backup file") \/ FailedWith(s, "Failed to delete file")
RaisedAfterStaging(s) ==
    RaisedAfterPlacement(s) \/ FailedWith(s, "Failed to move file")

\* C3: when placement, the backup or the deletion of the old file raises
\* for a slug, the slug is in failed and not in successful, its ledger entry
\* (in memory and persisted) is the one before the batch, and the file that
\* was placed for it is gone unless the rollback's deletion failed as well.
C3_Rollback ==
    \A s \in Slugs :
        RaisedAfterStaging(s) =>
            /\ s \in FailedSlugs
            /\ s \notin SuccessfulSlugs
            /\ Entry(state.files, s) = Entry(StateBefore.files, s)
            /\ (ledgerFile.kind = "json" =>
                    Entry(ParseState(ledgerFile).files, s) = Entry(StateBefore.files, s))
            /\ (RaisedAfterPlacement(s) =>
                    (disk[TargetOf(s)] = NoFile \/ <<s, "rollback">> \in faults))

C3_Witness ==
    \E s \in Slugs :
        /\ pc = "done"
        /\ RaisedAfterPlacement(s)
        /\ disk[TargetOf(s)] = NoFile
        /\ Entry(StateBefore.files, s) # NoInstalled
        /\ SuccessfulSlugs # {}

\* C4: a slug's steps happen in the order download, verification,
\* placement, ledger update: its ledger entry is set only when its file is
\* in place, its file is placed only after its download (and verification)
\* succeeded, and once the ledger entry is set the slug does not fail.
C4_StepOrder ==
    [][\A s \in Slugs :
        /\ (pc = "process" /\ pc' # "cancelled"
              /\ Entry(state'.files, s) # Entry(state.files, s))
            => /\ phase[s] = "placed"
               /\ disk[final_path] # NoFile
               /\ Entry(state'.files, s).file_path = final_path
        /\ (phase'[s] = "placed" /\ phase[s] # "placed")
            => (phase[s] = "verified" /\ dl[s].st = "ok")
        /\ (phase'[s] = "verified" /\ phase[s] # "verified")
            => (phase[s] = "staging" /\ ~(verify_hash /\ DigestMismatch(s)'))
        /\ (phase'[s] = "ledger_updated" /\ phase[s] # "ledger_updated")
            => phase[s] = "placed"
        /\ phase[s] = "ledger_updated"
            => (phase'[s] = "ledger_updated" /\ s \notin FailedSlugs')
      ]_vars

C4_Witness ==
    \E s \in Slugs :
        /\ pc = "done"
        /\ phase[s] = "ledger_updated"
        /\ dl[s].read # EmptyStr
        /\ \E u \in Slugs : phase[u] = "failed"

\* C6 as stated: every batch reads the ledger exactly once and writes it
\* exactly once.
C6_ExactlyOneLoadAndSave ==
    pc \in {"done"} => (io.loads = 1 /\ io.saves = 1)

\* C6, amended: a batch reads the ledger at most once - exactly once when
\* it has an actionable entry - and before any download starts; it writes
\* the ledger at most once - exactly once when a slug succeeded - and only
\* after every download result has been processed; the ledger file is not
\* touched while the batch is in progress.
C6_LoadOnceSaveOnce ==
    /\ io.loads <= 1 /\ io.saves <= 1
    /\ (\E s \in Slugs : dl[s].st # "none") => io.loads = 1
    /\ pc \in {"prepare", "download", "process", "save"}
           => (io.saves = 0 /\ ledgerFile = ledger0)
    /\ io.saves = 1 => (pc \in {"saving", "done", "raised"}
                        /\ \A i \in 1..Len(tasks) :
                              tasks[i] \in SuccessfulSlugs \cup FailedSlugs)
    /\ pc = "done" => /\ io.loads = IF ToUpdate # <<>> THEN 1 ELSE 0
                      /\ io.saves = IF SuccessfulSlugs # {} THEN 1 ELSE 0

C6_Witness ==
    /\ pc = "done"
    /\ io.loads = 1 /\ io.saves = 1
    /\ Len(result.successful) >= 2
    /\ result.failed # <<>>

\* C7: the persisted ledger is at every instant the complete previous
\* document or the complete new one.
C7_AtomicSave ==
    ledger0.kind # "partial" => ledgerFile \in {ledger0, DumpState(state)}

\* C8: after a cancellation before the save, the persisted ledger is the
\* one before the batch.
C8_CancelKeepsLedger ==
    pc = "cancelled" => ledgerFile = ledger0

C8_Witness ==
    /\ pc = "cancelled"
    /\ \E s \in Slugs : phase[s] = "ledger_updated" /\ disk[TargetOf(s)] = Bytes("new", s)
    /\ \E s \in Slugs : phase[s] = "placed"

----------------------------------------------------------------------------
(* Claims about the ledger operations, under SpecLedger *)

\* Whether a files dict holds no two entries of one slug.
OnePerSlug(files) == \A e1, e2 \in files : e1.key = e2.key => e1 = e2

\* C5: after any sequence of upserts (_save_installed_file, a successful
\* slug of apply_updates) and removals (_remove_installed_file), the ledger
\* - the persisted document whenever it can be read, and the StateFile that
\* a batch holds in memory - has at most one record per slug, and as many
\* records as there are slugs that were upserted and not removed since.
C5_OneRecordPerSlug ==
    /\ ledgerFile.kind # "partial" =>
          /\ OnePerSlug(_load_state(ledgerFile).state.files)
          /\ Cardinality(_load_state(ledgerFile).state.files) = Cardinality(live)
          /\ DictKeys(_load_state(ledgerFile).state.files) = live
    /\ (io.loads = 1 /\ pc \in {"prepare", "download", "process", "save", "saving", "done"}) =>
          /\ OnePerSlug(state.files)
          /\ Cardinality(state.files) =
                 Cardinality(DictKeys(StateBefore.files) \cup SuccessfulSlugs)

\* The batch upserted a slug over its own record and a later operation
\* removed it; a ledger operation upserted another slug, whose record is
\* the only one left.
C5_Witness ==
    /\ pc = "done"
    /\ nOps = MaxLedgerOps
    /\ ledgerFile.kind = "json"
    /\ \E s \in SuccessfulSlugs : DictHas(StateBefore.files, s) /\ s \notin live
    /\ \E s \in live : ~DictHas(InitialState.files, s) /\ s \notin SuccessfulSlugs
    /\ Cardinality(ledgerFile.files) = 1

----------------------------------------------------------------------------
(* Claims about check_updates, under SpecCheck *)

\* Whether the check of a slug raises, and with which message: the ledger
\* cannot be read, or get_versions raises.
CheckFails(s) == ledgerFile.kind = "partial" \/ remote[s].raises
FailureMessage(s) ==
    IF ledgerFile.kind = "partial" THEN "Failed to parse state file" ELSE remote[s].error

\* The versions of a slug's list that are compatible with the settings and
\* the slug's channel, by their positions in the list.
CompatiblePositions(s) ==
    {i \in 1..Len(remote[s].versions) :
        LET v == remote[s].versions[i]
        IN /\ minecraft_version \in v.game_versions
           /\ \E name \in v.loaders : name \in {"fabric", "Fabric", "FABRIC"}
           /\ \/ channel[s] = ALPHA
              \/ channel[s] = BETA /\ v.version_type \in {BETA, RELEASE}
              \/ channel[s] = RELEASE /\ v.version_type = RELEASE}

\* The target version: the newest compatible one, the first of the list
\* among those of the newest date.
TargetVersion(s) ==
    LET vs == remote[s].versions
        i == CHOOSE k \in CompatiblePositions(s) :
                \A j \in CompatiblePositions(s) :
                    \/ vs[j].date_published < vs[k].date_published
                    \/ vs[j].date_published = vs[k].date_published /\ k <= j
    IN vs[i]

\* The record of a slug in the ledger that check_updates reads.
RecordOf(s) == Entry(CheckedLedger.files, s)

\* Whether two digests are the same hexadecimal number.
SameDigest(h1, h2) == h1.tag = h2.tag /\ h1.of = h2.of

\* The status the classification rules give a slug whose versions were
\* fetched and whose target version has a file.
ExpectedStatus(s) ==
    IF CompatiblePositions(s) = {} THEN NOT_COMPATIBLE
    ELSE IF RecordOf(s) = NoInstalled THEN NOT_INSTALLED
    ELSE IF SameDigest(RecordOf(s).sha512,
                       GetSha512OrEmpty(PrimaryFile(TargetVersion(s).files)))
         THEN INSTALLED
         ELSE OUTDATED

\* Whether the classification rules say what the status of a slug is: they
\* compare the record with the target file only when there is one.
StatusDetermined(s) ==
    \/ CompatiblePositions(s) = {}
    \/ RecordOf(s) = NoInstalled
    \/ TargetVersion(s).files # <<>>

\* C9: check_updates never raises for a failure on one slug. A declaration
\* whose check raises gets a CHECK_FAILED result with the message of the
\* exception as error and null current and latest fields; every other
\* declaration gets the result it would get alone, and check_updates
\* returns one result for each declaration.
C9_FailureIsPerSlug ==
    /\ cpc # "raised"
    /\ cpc = "done" => Len(results) = Len(projects)
    /\ \A i \in 1..Len(results) :
          LET s == projects[i].slug
          IN /\ results[i].slug = s
             /\ CheckFails(s) =>
                   results[i] = [slug |-> s, status |-> CHECK_FAILED,
                                 current_version |-> "-", current_file |-> NoInstalled,
                                 latest_version |-> "-", latest_version_id |-> "-",
                                 latest_file |-> NoProjectFile,
                                 error |-> FailureMessage(s)]
             /\ ~CheckFails(s) =>
                   /\ results[i].status # CHECK_FAILED
                   /\ StatusDetermined(s) => results[i].status = ExpectedStatus(s)

\* The check of the second declaration raised; the first and the third
\* were classified.
C9_Witness ==
    /\ cpc = "done"
    /\ ledgerFile.kind = "json"
    /\ remote["b"].raises
    /\ results[2].status = CHECK_FAILED /\ results[2].error = "Request timed out"
    /\ results[1].status = OUTDATED
    /\ results[3].status = NOT_INSTALLED

\* C10: a declaration whose version list was fetched is NOT_COMPATIBLE,
\* with null latest_version, latest_version_id and latest_file, when no
\* version is compatible; else NOT_INSTALLED when the ledger has no record
\* of it; else INSTALLED when the sha512 of the record and of the target
\* version's primary file are equal whatever the case of their letters, and
\* OUTDATED when they differ. Only a CHECK_FAILED result has an error.
C10_Classification ==
    \A i \in 1..Len(results) :
        LET r == results[i]
            s == r.slug
        IN /\ ~CheckFails(s) =>
                /\ r.error = "-"
                /\ CompatiblePositions(s) = {} =>
                      /\ r.status = NOT_COMPATIBLE
                      /\ r.latest_version = "-" /\ r.latest_version_id = "-"
                      /\ r.latest_file = NoProjectFile
                /\ (CompatiblePositions(s) # {} /\ RecordOf(s) = NoInstalled) =>
                      r.status = NOT_INSTALLED
                /\ (CompatiblePositions(s) # {} /\ RecordOf(s) # NoInstalled
                        /\ TargetVersion(s).files # <<>>) =>
                      /\ r.latest_version_id = TargetVersion(s).id
                      /\ r.latest_file = PrimaryFile(TargetVersion(s).files)
                      /\ SameDigest(RecordOf(s).sha512, GetSha512OrEmpty(r.latest_file))
                            => r.status = INSTALLED
                      /\ ~SameDigest(RecordOf(s).sha512, GetSha512OrEmpty(r.latest_file))
                            => r.status = OUTDATED
           /\ r.error # "-" => r.status = CHECK_FAILED

\* The first declaration is INSTALLED with digests that differ in case only,
\* the second OUTDATED, the third NOT_COMPATIBLE.
C10_Witness ==
    /\ cpc = "done"
    /\ results[1].status = INSTALLED
    /\ results[1].current_file.sha512 # GetSha512OrEmpty(results[1].latest_file)
    /\ results[2].status = OUTDATED
    /\ results[3].status = NOT_COMPATIBLE /\ remote["c"].versions # <<>>

\* Whether the ledger has a record of a slug and the recorded file is not
\* on disk.
StaleRecord(s) == RecordOf(s) # NoInstalled /\ disk[RecordOf(s).file_path] = NoFile

\* C11: a slug whose record names a file that is no longer on disk is
\* checked as if it had no record - NOT_INSTALLED when a compatible version
\* exists, never INSTALLED or OUTDATED - and check_updates leaves the ledger
\* as it is.
C11_StaleRecordIsNotInstalled ==
    /\ ledgerFile = ledger0
    /\ \A i \in 1..Len(results) :
          LET s == results[i].slug
          IN (~CheckFails(s) /\ StaleRecord(s)) =>
                /\ results[i].status \notin {INSTALLED, OUTDATED}
                /\ CompatiblePositions(s) # {} => results[i].status = NOT_INSTALLED

\* C12: check_updates returns one result for each declaration, in the
\* order of the declarations: the results so far are those of the first
\* declarations, and on return there are as many results as declarations.
C12_OneResultPerDeclarationInOrder ==
    /\ Len(results) = cidx - 1
    /\ Len(results) <= Len(projects)
    /\ \A i \in 1..Len(results) : results[i].slug = projects[i].slug
    /\ cpc = "done" => [i \in 1..Len(results) |-> results[i].slug] = SlugOrder

\* check_updates returned; the check of the first declaration failed and
\* those of the later ones did not.
C12_Witness ==
    /\ cpc = "done"
    /\ results[1].status = CHECK_FAILED
    /\ results[2].status = INSTALLED
    /\ results[3].status = NOT_INSTALLED

----------------------------------------------------------------------------
(* More claims about apply_updates, under Spec *)

\* The place of a slug in the updates list.
PositionOf(s) == CHOOSE i \in 1..Len(SlugOrder) : SlugOrder[i] = s

\* Whether a list of slugs is in the order of the updates list.
InInputOrder(slugs) ==
    \A i, j \in 1..Len(slugs) : i < j => PositionOf(slugs[i]) < PositionOf(slugs[j])

\* C13: the successful list and the failed list of the result each name
\* their slugs in the order of the updates list.
C13_ResultListsInInputOrder ==
    pc = "done" =>
        /\ InInputOrder(result.successful)
        /\ InInputOrder([i \in 1..Len(result.failed) |-> result.failed[i][1]])

\* The entries that need no action, and the actionable ones without a
\* target file.
NoAction == {s \in Slugs : Update(s).status \notin {NOT_INSTALLED, OUTDATED}}
NoTargetFile ==
    {s \in Slugs : Update(s).status \in {NOT_INSTALLED, OUTDATED}
                      /\ Update(s).latest_file = NoProjectFile}

\* C14: an entry that is INSTALLED, NOT_COMPATIBLE or CHECK_FAILED causes
\* no download, no file of its own on disk and no change of its ledger
\* entry (in memory, and in the ledger file whenever another slug's save
\* has not left it unreadable), and is in neither list of the result; a
\* batch of such entries
\* only changes nothing at all. An actionable entry without a target file
\* is never downloaded, never successful, and is in failed with the reason
\* "No compatible version found" once the tasks have been built.
C14_OnlyActionableEntriesAct ==
    /\ \A s \in NoAction :
          /\ dl[s] = NoDownload
          /\ phase[s] = "none"
          /\ s \notin SuccessfulSlugs \cup FailedSlugs
          /\ \A p \in Paths : disk[p] \notin DownloadedBy(s)
          /\ ledgerFile.kind # "partial" =>
                Entry(_load_state(ledgerFile).state.files, s) = Entry(StateBefore.files, s)
          /\ (io.loads = 1
                /\ pc \in {"prepare", "download", "process", "save", "saving", "done"})
                => Entry(state.files, s) = Entry(StateBefore.files, s)
    /\ NoAction = Slugs =>
          /\ disk = InitialDisk /\ ledgerFile = ledger0
          /\ io = [loads |-> 0, saves |-> 0]
          /\ pc \in {"start", "done"}
    /\ \A s \in NoTargetFile :
          /\ dl[s] = NoDownload
          /\ s \notin SuccessfulSlugs
          /\ \A p \in Paths : disk[p] \notin DownloadedBy(s)
          /\ (pc \in {"download", "process", "save", "saving", "done"}
                \/ (pc = "raised" /\ io.saves = 1))
                => FailedWith(s, "No compatible version found")
          /\ \A msg \in {"HTTP error", "I/O error", "Hash mismatch", "Failed to move file"} :
                ~FailedWith(s, msg)

\* A batch returned with an installed entry left alone, an entry without a
\* target file failed and a third slug installed and saved.
C14_Witness ==
    /\ pc = "done"
    /\ \E s \in NoAction : Update(s).status = INSTALLED /\ disk[OldPath(s)] = Bytes("old", s)
    /\ \E s \in NoTargetFile : FailedWith(s, "No compatible version found")
    /\ SuccessfulSlugs # {}
    /\ ledgerFile.kind = "json"

\* C15: a slug whose backup copy could not be made is not failed: once
\* the batch has returned it is in successful, its new file is in place
\* and its ledger entry is the new record.
C15_BackupFailureIsNotFatal ==
    \A s \in Slugs :
        <<s, "Failed to backup file">> \in faults =>
            /\ s \notin FailedSlugs
            /\ pc = "done" =>
                  /\ s \in SuccessfulSlugs
                  /\ disk[TargetOf(s)] # NoFile
                  /\ Entry(state.files, s).file_path = TargetOf(s)

\* The slugs that are updated over a previously installed file that exists
\* at another path than the new file's.
Replacing ==
    {s \in Slugs : kind[s] = "update" /\ oldCase \in {"other", "shared"}
                      /\ OldPath(s) # TargetOf(s)}

\* Whether a result lists a backup that is a copy of a slug's old file.
BackedUp(res, d, s) ==
    \E i \in 1..Len(res.backed_up) :
        /\ res.backed_up[i].dir = BACKUP
        /\ d[res.backed_up[i]] = Bytes("old", s)

\* C16: the old file of such a slug is deleted only when the new file is in
\* place and, with backup on, a copy of the old file has been made; once
\* the slug is successful the old file is gone, the new file is at the
\* file_path of the slug's ledger entry, and with backup on the backed_up
\* list names a copy of the old file.
C16_OldFileReplacedInOrder ==
    [][\A s \in Replacing :
        /\ (disk[OldPath(s)] # NoFile /\ disk'[OldPath(s)] = NoFile) =>
              /\ phase[s] = "placed"
              /\ disk[TargetOf(s)] # NoFile
              /\ backup => BackedUp(result, disk, s)
        /\ s \in SuccessfulSlugs' =>
              /\ disk'[OldPath(s)] = NoFile
              /\ Entry(state'.files, s).file_path = TargetOf(s)
              /\ disk'[TargetOf(s)] # NoFile
              /\ backup => BackedUp(result', disk', s)
      ]_vars

\* The artifacts of a slug's run: its staged file, its newly placed file and
\* the backup copy of its old file.
StagedFileRemains(s) ==
    disk[Path(TempDownloadDir, fname[s])].slug = s

PlacedFileRemains(s) ==
    /\ disk[TargetOf(s)].slug = s
    /\ disk[TargetOf(s)].kind # "old"

BackupCopyRemains(s) ==
    \E i \in 1..Len(result.backed_up) : disk[result.backed_up[i]] = Bytes("old", s)

\* C17: a slug whose execution has ended in failure has no staged file in
\* the temporary download directory, no newly placed file in its target
\* directory and no backup copy left.
C17_FailureCleansUp ==
    \A s \in FailedSlugs :
        /\ ~StagedFileRemains(s)
        /\ ~PlacedFileRemains(s)
        /\ ~BackupCopyRemains(s)

\* Everything outside the temporary download directory, and the ledger
\* file, are as they were before the operation.
InstalledFilesUntouched(d, doc) ==
    /\ doc = ledger0
    /\ LET before == InitialDisk IN
       \A p \in Paths : p.dir # TempDownloadDir => d[p] = before[p]

\* C18: while the downloads of a batch run, and when one fails, is given up
\* or is recorded as failed, only paths in the temporary download directory
\* change: the installed files and the ledger, in memory and on disk, stay
\* as they were; and a download that fails with a network or I/O error
\* after it created the staged file leaves no file at its staging path.
C18_DownloadOnlyTouchesStaging ==
    [][LET untouched == InstalledFilesUntouched(disk, ledgerFile) IN
       /\ (pc = "download" \/ (pc = "process" /\ ~Success(Current))) =>
            /\ \A p \in Paths : disk'[p] # disk[p] => p.dir = TempDownloadDir
            /\ untouched => InstalledFilesUntouched(disk', ledgerFile')
            /\ pc' # "cancelled" => state' = state
       /\ pc = "download" => untouched
       /\ \A s \in Slugs :
            (pc = "download" /\ dl[s].st = "open" /\ dl'[s].st = "fail") =>
                /\ dl'[s].error \in {"HTTP error", "I/O error"}
                /\ disk'[Task(s).dest] = NoFile
                /\ Entry(state'.files, s) = Entry(ParseState(ledger0).files, s)
      ]_vars

\* The download of an update has failed while the body was streamed, and
\* the old file of the slug is where it was.
C18_Witness ==
    \E s \in Slugs :
        /\ kind[s] = "update" /\ oldCase = "other"
        /\ pc = "download"
        /\ dl[s].st = "fail" /\ dl[s].file_created /\ dl[s].error = "I/O error"
        /\ disk[OldPath(s)] = Bytes("old", s)
        /\ disk[Task(s).dest] = NoFile

----------------------------------------------------------------------------
(* The specification of _load_state and _save_state called on their own *)

\* A well-formed record of a slug with a project type.
RecordOfType(s, pt) ==
    InstalledFile(s, pt, OldName(s), "v1", "1.0", Hex(Bytes("old", s), FALSE), Now,
                  Path(get_target_directory(pt), OldName(s)))

\* The well-formed ledgers: any version, and for every slug no record or
\* a record of any project type.
Versions == {STATE_VERSION, STATE_VERSION + 1}
LedgerOf(v, types) ==
    StateFile(v, {[key |-> s, val |-> RecordOfType(s, types[s])] :
                     s \in {u \in Slugs : types[u] # "-"}})
Ledgers ==
    {LedgerOf(v, types) : v \in Versions,
                          types \in [Slugs -> {MOD, SHADER, RESOURCEPACK, "-"}]}

\* The ways an entry of "files" can be written.
Written(j, how) ==
    CASE how = "record" -> j
      [] how = "no file_path" -> WithoutKey(j, "file_path")
      [] how = "no project_type" -> WithoutKey(j, "project_type")
      [] how = "no sha512" -> WithoutKey(j, "sha512")
      [] how = "bad project_type" -> [j EXCEPT !.project_type = "plugin"]
      [] how = "file_path number" -> [j EXCEPT !.file_path = NumberJson]
      [] how = "scalar" -> ScalarJson
Ways ==
    {"record", "no file_path", "no project_type", "no sha512", "bad project_type",
     "file_path number", "scalar"}

\* The ledger files: no file, text that is no JSON, JSON that is no object
\* or whose "files" is none, and JSON objects with or without a version,
\* with no entry, one entry or two, the first one written in any of the ways.
Documents ==
    {AbsentDoc, PartialDoc, ValueDoc, FilesValueDoc(STATE_VERSION)}
    \cup {JsonDoc(v, {}) : v \in {VersionAbsent, STATE_VERSION}}
    \cup {JsonDoc(v, {[key |-> "a", val |-> Written(model_dump(RecordOfType("a", MOD)), how)]}
                     \cup more) :
            v \in {VersionAbsent, STATE_VERSION}, how \in Ways,
            more \in {{}, {[key |-> "b", val |-> model_dump(RecordOfType("b", SHADER))]}}}

InitStateFile ==
    /\ kind = [s \in Slugs |-> "skip"]
    /\ fname = [s \in Slugs |-> CASE s = "a" -> "x.jar" [] s = "b" -> "y.jar" [] OTHER -> "z.jar"]
    /\ oldCase = "other"
    /\ verify_hash = TRUE
    /\ backup = TRUE
    /\ max_concurrent = MaxConcurrent
    /\ disk = [p \in Paths |-> NoFile]
    /\ ledger0 \in Documents
    /\ ledgerFile = ledger0
    /\ live = {}
    /\ nOps = 0
    /\ ApplyCalled
    /\ ServiceIdle
    /\ CheckIdle
    /\ lpc = "start"
    /\ given \in Ledgers
    /\ answer = LoadReturns(StateFile(STATE_VERSION, {}))
    /\ GatewayIdle

stateFrame == UNCHANGED <<inputVars, disk, ledger0, applyVars, histVars, nOps, checkVars,
                          gatewayVars, serviceVars>>

\* _load_state, lines 97-126, of the file as found and of the file as saved.
LoadState ==
    /\ lpc \in {"start", "saved"}
    /\ answer' = _load_state(ledgerFile)
    /\ lpc' = IF lpc = "start" THEN "loaded" ELSE "reloaded"
    /\ UNCHANGED <<ledgerFile, given>>
    /\ stateFrame

\* _save_state, lines 149-150: open(path, "w") empties the file.
SaveStateOpen ==
    /\ lpc = "loaded"
    /\ ledgerFile' = OpenForWriting(ledgerFile)
    /\ lpc' = "saving"
    /\ UNCHANGED <<given, answer>>
    /\ stateFrame

\* _save_state, lines 138-150: json.dump writes the document.
SaveStateWrite ==
    /\ lpc = "saving"
    /\ ledgerFile' = WriteDocument(given)
    /\ lpc' = "saved"
    /\ UNCHANGED <<given, answer>>
    /\ stateFrame

NextStateFile ==
    \/ LoadState
    \/ SaveStateOpen
    \/ SaveStateWrite

SpecStateFile == InitStateFile /\ [][NextStateFile]_vars

\* What the schema of the ledger file accepts: a JSON object whose "files"
\* has only objects with every member of InstalledFile, a project type of
\* the enum and a string for the path.
ValidEntry(j) ==
    /\ RequiredFields \subseteq DOMAIN j
    /\ j.project_type \in {MOD, SHADER, RESOURCEPACK}
    /\ "str" \in DOMAIN j.file_path
ValidDocument(doc) ==
    /\ doc.kind = "json"
    /\ \A e \in doc.files : ValidEntry(e.val)

EmptyLedger == StateFile(STATE_VERSION, {})

\* C19: _load_state answers the empty ledger of version 1 for an absent
\* file; for a file that exists and is no valid ledger document it raises
\* StateFileError; and it returns a ledger with no entry only for an absent
\* file or a valid document with no entry, and never one with fewer
\* entries than the document.
C19_LoadRaisesOnInvalidFile ==
    lpc \in {"loaded", "reloaded"} =>
        /\ ledgerFile = AbsentDoc => answer = LoadReturns(EmptyLedger)
        /\ (ledgerFile # AbsentDoc /\ ~ValidDocument(ledgerFile)) =>
               answer.raised = "StateFileError"
        /\ answer.ok =>
               \/ ledgerFile = AbsentDoc
               \/ /\ ValidDocument(ledgerFile)
                  /\ DictKeys(answer.state.files) = DictKeys(ledgerFile.files)

----------------------------------------------------------------------------
(* The specification of a batch over a ledger file of any content *)

\* The ledger files that are no valid ledger document.
CorruptDocs ==
    {PartialDoc, ValueDoc, FilesValueDoc(STATE_VERSION)}
    \cup {JsonDoc(STATE_VERSION,
                  {[key |-> "a", val |-> Written(model_dump(RecordOfType("a", MOD)), how)]}) :
            how \in {"no sha512", "bad project_type"}}

\* The batches of InitLedger, over the ledger file of the records or a
\* corrupt one.
InitCorrupt ==
    /\ InitInputs
    /\ kind["c"] = "skip"
    /\ kind["b"] \in {"skip", "install"}
    /\ fname["a"] # fname["b"]
    /\ max_concurrent = MaxConcurrent
    /\ disk = InitialDisk
    /\ ledger0 \in {IF InitialState.files = {} THEN AbsentDoc ELSE DumpState(InitialState)}
                       \cup CorruptDocs
    /\ ledgerFile = ledger0
    /\ live = DictKeys(InitialState.files)
    /\ nOps = 0
    /\ ApplyCalled
    /\ ServiceIdle
    /\ CheckIdle
    /\ StateIdle
    /\ GatewayIdle

SpecCorrupt == InitCorrupt /\ [][Next]_vars

\* C21: apply_updates called with an actionable entry over a corrupt
\* ledger file raises StateFileError; no download has started, no file has
\* been placed, backed up or deleted, and the ledger file is not written.
C21_CorruptLedgerRaisesFirst ==
    (ledger0 \in CorruptDocs /\ ToUpdate # <<>> /\ pc # "start") =>
        /\ pc = "raised"
        /\ answer.raised = "StateFileError"
        /\ tasks = <<>>
        /\ \A s \in Slugs : dl[s].st = "none" /\ phase[s] = "none"
        /\ disk = InitialDisk
        /\ result = EmptyResult
        /\ io.saves = 0
        /\ ledgerFile = ledger0

\* The final save of the batch has failed.
SaveFailed == pc = "raised" /\ <<"-", "save">> \in faults

\* C22: when the final save fails, apply_updates has raised, the files
\* placed for the slugs recorded in memory are on disk, and the ledger file
\* holds what it held before the batch.
C22_SaveFailureKeepsOldLedger ==
    SaveFailed =>
        /\ \A s \in SuccessfulSlugs :
               disk[Entry(state.files, s).file_path] # NoFile
        /\ ledgerFile = ledger0

----------------------------------------------------------------------------
(* The specification of the version filter: filter_compatible_versions and
   get_latest_compatible_version on lists of versions *)

\* How long the lists of versions are.
MaxVersions == 3

\* The versions the lists are made of: two releases of one date, a release
\* whose loader is spelled "Fabric", a beta, an alpha whose loader is
\* spelled "FABRIC", a release for another game version and one for Forge.
VersionPool ==
    {VSame("a"), VNew("a"), VTie("a"), VBeta("a"), VAlpha("a"), VOldGame("a"), VForge("a")}

\* The lists of up to MaxVersions different versions, in any order.
VersionLists ==
    UNION {{l \in [1..n -> VersionPool] : \A i, j \in 1..n : i # j => l[i] # l[j]} :
              n \in 0..MaxVersions}

\* The reorderings of a list.
Reorderings(l) ==
    {[i \in 1..Len(l) |-> l[p[i]]] :
        p \in {q \in [1..Len(l) -> 1..Len(l)] : \A i, j \in 1..Len(l) : i # j => q[i] # q[j]}}

InitFilter ==
    /\ kind = [s \in Slugs |-> "skip"]
    /\ fname = [s \in Slugs |-> CASE s = "a" -> "x.jar" [] s = "b" -> "y.jar" [] OTHER -> "z.jar"]
    /\ oldCase = "other"
    /\ verify_hash = TRUE
    /\ backup = TRUE
    /\ max_concurrent = MaxConcurrent
    /\ disk = [p \in Paths |-> NoFile]
    /\ ledger0 = AbsentDoc
    /\ ledgerFile = ledger0
    /\ live = {}
    /\ nOps = 0
    /\ ApplyCalled
    /\ ServiceIdle
    /\ CheckIdle
    /\ StateIdle
    /\ given_versions \in VersionLists
    /\ wanted \in [minecraft_version : {minecraft_version}, loader : {"fabric", "forge"},
                   channel : ReleaseChannel]
    /\ filtered = [c \in ReleaseChannel |-> NotCalled]
    /\ chosen = {}
    /\ max_retries = 0
    /\ backoff_factor = 1
    /\ slug_arg = [slug |-> "-", path |-> "-"]
    /\ attempt = 0
    /\ sent = <<>>
    /\ slept = <<>>
    /\ rpc = "idle"
    /\ thrown = NoException

filterFrame == UNCHANGED <<inputVars, fsVars, applyVars, histVars, nOps, checkVars,
                           stateVars, requestVars, wanted, serviceVars>>

\* filter_compatible_versions, lines 261-310, for a channel: the list it
\* is given is left as it is.
FilterCompatibleVersions(ch) ==
    /\ ~filtered[ch].called
    /\ filtered' = [filtered EXCEPT ![ch] =
           Called(filter_compatible_versions(given_versions, wanted.minecraft_version,
                                             wanted.loader, ch))]
    /\ UNCHANGED <<given_versions, chosen>>
    /\ filterFrame

\* get_latest_compatible_version, lines 312-333: a first call on the list,
\* and a second one on the list again or on a reordering of it.
GetLatestCompatibleVersion(l) ==
    /\ \A c \in ReleaseChannel : filtered[c].called
    /\ chosen = {} \/ \E c \in chosen : chosen = {c}
    /\ chosen = {} => l = given_versions
    /\ chosen' = chosen \cup
           {[input |-> l,
             output |-> get_latest_compatible_version(l, wanted.minecraft_version,
                                                      wanted.loader, wanted.channel)]}
    /\ UNCHANGED <<given_versions, filtered>>
    /\ filterFrame

NextFilter ==
    \/ \E ch \in ReleaseChannel : FilterCompatibleVersions(ch)
    \/ \E l \in Reorderings(given_versions) : GetLatestCompatibleVersion(l)

SpecFilter == InitFilter /\ [][NextFilter]_vars

\* The rank of a channel: release 0, beta 1, alpha 2.
Rank(c) == CASE c = RELEASE -> 0 [] c = BETA -> 1 [] c = ALPHA -> 2

\* Whether a version is compatible with what is asked for, under a channel.
Compatible(v, ch) ==
    /\ wanted.minecraft_version \in v.game_versions
    /\ \E name \in v.loaders : StrLower(name) = StrLower(wanted.loader)
    /\ Rank(v.version_type) <= Rank(ch)

CompatibleIn(l, ch) == {i \in 1..Len(l) : Compatible(l[i], ch)}
Elements(l) == {l[i] : i \in 1..Len(l)}

\* C23: a call of filter_compatible_versions returns exactly the versions
\* of the list that are compatible under its channel, each once, ordered
\* newest first by date_published, and leaves the list as it was.
C23_FilterReturnsCompatibleNewestFirst ==
    [][\A ch \in ReleaseChannel :
          filtered'[ch] # filtered[ch] =>
              LET out == filtered'[ch].versions IN
              /\ Elements(out) = {given_versions[i] : i \in CompatibleIn(given_versions, ch)}
              /\ Len(out) = Cardinality(CompatibleIn(given_versions, ch))
              /\ \A i, j \in 1..Len(out) :
                     i < j => out[i].date_published >= out[j].date_published
              /\ given_versions' = given_versions
      ]_vars

\* A list with versions that pass and versions that fail each check, among
\* them one whose loader is spelled in another case, has been filtered.
C23_Witness ==
    /\ filtered[BETA].called
    /\ Len(given_versions) = MaxVersions
    /\ Len(filtered[BETA].versions) = 2
    /\ \E i \in 1..2 : filtered[BETA].versions[i] = VNew("a")
    /\ filtered[BETA].versions[1].date_published > filtered[BETA].versions[2].date_published
    /\ given_versions[1].date_published < given_versions[3].date_published

\* C24: get_latest_compatible_version returns None exactly when no version
\* of the list is compatible; otherwise it returns a compatible version of
\* the greatest date_published, the first of the list among those.
C24_LatestIsNewestFirstOfTies ==
    \A c \in chosen :
        LET l == c.input
            ok == CompatibleIn(l, wanted.channel)
            newest == {i \in ok : \A j \in ok : l[i].date_published >= l[j].date_published}
        IN /\ (c.output = NoVersion) <=> (ok = {})
           /\ ok # {} => c.output = l[CHOOSE i \in newest : \A j \in newest : i <= j]

\* Two compatible versions of the greatest date are in the list, in either
\* order, and the first of them has been returned.
C24_Witness ==
    \E c \in chosen :
        /\ c.input # given_versions
        /\ Len(c.input) = MaxVersions
        /\ c.input[2] = VTie("a") /\ c.input[3] = VSame("a")
        /\ c.output = VTie("a")

\* C25: what the filter returns for ALPHA includes what it returns for
\* BETA, which includes what it returns for RELEASE.
C25_ChannelsAreNested ==
    (\A c \in ReleaseChannel : filtered[c].called) =>
        /\ Elements(filtered[RELEASE].versions) \subseteq Elements(filtered[BETA].versions)
        /\ Elements(filtered[BETA].versions) \subseteq Elements(filtered[ALPHA].versions)

\* The three channels have been asked for, and each returned more.
C25_Witness ==
    /\ \A c \in ReleaseChannel : filtered[c].called
    /\ Len(filtered[RELEASE].versions) = 1
    /\ Len(filtered[BETA].versions) = 2
    /\ Len(filtered[ALPHA].versions) = 3

\* Whether the compatible versions of a list have different dates.
DistinctDates(l) ==
    \A i, j \in CompatibleIn(l, wanted.channel) :
        i # j => l[i].date_published # l[j].date_published

\* C26: two calls of get_latest_compatible_version on one list return one
\* version, and so do calls on two orderings of a list whose compatible
\* versions have different dates.
C26_LatestIsOrderIndependent ==
    \A c, d \in chosen :
        /\ c.input = d.input => c.output = d.output
        /\ DistinctDates(c.input) => c.output = d.output

\* The call on a list of three compatible versions of different dates and
\* the call on another ordering of it have returned one version.
C26_Witness ==
    \E c, d \in chosen :
        /\ c.input # d.input
        /\ Cardinality(CompatibleIn(c.input, wanted.channel)) = MaxVersions
        /\ DistinctDates(c.input)
        /\ c.output = d.output
        /\ c.output # c.input[1]

----------------------------------------------------------------------------
(* The specification of ModrinthClient._request *)

\* The greatest max_retries of the runs.
MaxRetries == 2

\* A response: its status code and its Retry-After header, "-" when it has
\* none; and a request that ends in a timeout of the transport.
Response(code, after) == [status_code |-> code, retry_after |-> after, timeout |-> FALSE]
TimedOut == [status_code |-> 0, retry_after |-> "-", timeout |-> TRUE]

\* What the server answers: success, a redirect, 404, 429 with no
\* Retry-After, with an empty one, with seconds or with an HTTP date, other
\* client errors, and server errors.
Responses ==
    {Response(200, "-"), Response(302, "-"), Response(404, "-"), Response(400, "-"),
     Response(403, "-"), Response(500, "-"), Response(503, "-")}
    \cup {Response(429, after) : after \in {"-", "", "30", "Wed, 21 Oct 2026 07:28:00 GMT"}}

\* int(): the number a text spells, for the texts that spell one.
SpellsInt(text) == text \in {"30"}
IntOf(text) == CASE text = "30" -> 30

\* Lines 119-124: the slug given, else the one of a /project/{slug} path,
\* else "unknown".
SlugOf(arg) ==
    IF arg.slug # "-" THEN arg.slug
    ELSE CASE arg.path = "/project/b/version" -> "b"
           [] OTHER -> "unknown"

\* _handle_error_response, lines 106-139: the exception it raises for a
\* response, NoException when it raises none. int() of a Retry-After that
\* spells no number raises ValueError.
_handle_error_response(response, arg) ==
    CASE response.status_code = 404 ->
            Exception("ProjectNotFoundError", 404, SlugOf(arg), NoSeconds)
      [] response.status_code = 429 ->
            IF response.retry_after \in {"-", ""}
            THEN Exception("RateLimitError", 429, "-", NoSeconds)
            ELSE IF SpellsInt(response.retry_after)
                 THEN Exception("RateLimitError", 429, "-",
                                Seconds(IntOf(response.retry_after)))
                 ELSE Exception("ValueError", 0, "-", NoSeconds)
      [] response.status_code >= 400 ->
            Exception("APIError", response.status_code, "-", NoSeconds)
      [] OTHER -> NoException

\* The exceptions the except clause of _request catches: APIError and its
\* subclasses.
IsAPIError(e) == e.type \in {"APIError", "ProjectNotFoundError", "RateLimitError"}

\* A test that allows one retry more.
RetriesLeftOrEqual == attempt <= max_retries

\* Line 182: attempt < self.max_retries.
RetriesLeft == attempt < max_retries

\* Line 183: backoff_factor * (2**attempt).
wait_time == backoff_factor * (2 ^ attempt)

InitRequest ==
    /\ kind = [s \in Slugs |-> "skip"]
    /\ fname = [s \in Slugs |-> CASE s = "a" -> "x.jar" [] s = "b" -> "y.jar" [] OTHER -> "z.jar"]
    /\ oldCase = "other"
    /\ verify_hash = TRUE
    /\ backup = TRUE
    /\ max_concurrent = MaxConcurrent
    /\ disk = [p \in Paths |-> NoFile]
    /\ ledger0 = AbsentDoc
    /\ ledgerFile = ledger0
    /\ live = {}
    /\ nOps = 0
    /\ ApplyCalled
    /\ ServiceIdle
    /\ CheckIdle
    /\ StateIdle
    /\ given_versions = <<>>
    /\ wanted = [minecraft_version |-> minecraft_version, loader |-> loader,
                 channel |-> RELEASE]
    /\ filtered = [c \in ReleaseChannel |-> NotCalled]
    /\ chosen = {}
    /\ max_retries \in 0..MaxRetries
    /\ backoff_factor \in {1, 3}
    /\ slug_arg \in {[slug |-> "a", path |-> "/project/a"],
                     [slug |-> "-", path |-> "/project/b/version"],
                     [slug |-> "-", path |-> "/search"]}
    /\ attempt = 0
    /\ sent = <<>>
    /\ slept = <<>>
    /\ rpc = "request"
    /\ thrown = NoException

requestFrame == UNCHANGED <<inputVars, fsVars, applyVars, histVars, nOps, checkVars,
                            stateVars, filterVars, max_retries, backoff_factor, slug_arg,
                            serviceVars>>

\* Line 169: the request is sent and answered.
SendRequest ==
    /\ rpc = "request"
    /\ \E r \in Responses : sent' = Append(sent, r)
    /\ rpc' = "response"
    /\ UNCHANGED <<attempt, slept, thrown>>
    /\ requestFrame

\* Line 169: the request times out; httpx.TimeoutException is no APIError,
\* and leaves _request.
RequestTimesOut ==
    /\ rpc = "request"
    /\ sent' = Append(sent, TimedOut)
    /\ thrown' = Exception("TimeoutException", 0, "-", NoSeconds)
    /\ rpc' = "raised"
    /\ UNCHANGED <<attempt, slept>>
    /\ requestFrame

\* Lines 170-190: the response is returned; or its exception is raised, at
\* once when it is no APIError or is a client error, and when no retry is
\* left; or a retry follows.
HandleResponse ==
    /\ rpc = "response"
    /\ LET e == _handle_error_response(sent[Len(sent)], slug_arg) IN
          IF e = NoException
          THEN rpc' = "returned" /\ UNCHANGED thrown
          ELSE IF ~IsAPIError(e) \/ (400 <= e.status_code /\ e.status_code < 500)
                  \/ ~RetriesLeft
               THEN rpc' = "raised" /\ thrown' = e
               ELSE rpc' = "sleep" /\ UNCHANGED thrown
    /\ UNCHANGED <<attempt, sent, slept>>
    /\ requestFrame

\* Lines 183-185: asyncio.sleep(wait_time), and the next pass of the loop.
Backoff ==
    /\ rpc = "sleep"
    /\ slept' = Append(slept, wait_time)
    /\ attempt' = attempt + 1
    /\ rpc' = "request"
    /\ UNCHANGED <<sent, thrown>>
    /\ requestFrame

NextRequest ==
    \/ SendRequest
    \/ RequestTimesOut
    \/ HandleResponse
    \/ Backoff

\* The event loop runs the coroutine: a request is answered or times out,
\* and a sleep ends.
SpecRequest == InitRequest /\ [][NextRequest]_vars /\ WF_vars(NextRequest)

IsClientError(r) == ~r.timeout /\ 400 <= r.status_code /\ r.status_code < 500
IsServerError(r) == ~r.timeout /\ r.status_code >= 500
IsNoError(r) == ~r.timeout /\ r.status_code < 400
RequestEnded == rpc \in {"returned", "raised"}

\* C27: after a response that is a client error no other request is sent
\* and nothing is waited for: _request raises, ProjectNotFoundError with
\* the slug for 404, RateLimitError with the Retry-After value, or None,
\* for 429, and APIError for another 4xx; a client error as the first
\* response makes it one request, whatever max_retries is.
C27_ClientErrorIsNotRetried ==
    \A k \in 1..Len(sent) :
        IsClientError(sent[k]) =>
            /\ Len(sent) = k
            /\ Len(slept) = k - 1
            /\ rpc \in {"response", "raised"}
            /\ rpc = "raised" =>
                 /\ thrown.status_code = sent[k].status_code
                 /\ sent[k].status_code = 404 =>
                       /\ thrown.type = "ProjectNotFoundError"
                       /\ slug_arg.slug # "-" => thrown.slug = slug_arg.slug
                 /\ sent[k].status_code = 429 =>
                       /\ thrown.type = "RateLimitError"
                       /\ sent[k].retry_after = "-" => thrown.retry_after = NoSeconds
                       /\ sent[k].retry_after = "30" => thrown.retry_after = Seconds(30)
                 /\ sent[k].status_code \notin {404, 429} => thrown.type = "APIError"

\* The bounds and the contents of a run of _request: at most
\* max_retries + 1 requests; a run that has ended on server errors alone
\* made max_retries + 1 of them and raised APIError with the status code;
\* a run that returned made no request after the response without error;
\* and the wait before retry n is backoff_factor * 2^n.
RequestBounds ==
    /\ Len(sent) <= max_retries + 1
    /\ (RequestEnded /\ \A k \in 1..Len(sent) : IsServerError(sent[k])) =>
           /\ Len(sent) = max_retries + 1
           /\ rpc = "raised"
           /\ thrown.type = "APIError"
           /\ thrown.status_code = sent[Len(sent)].status_code
    /\ rpc = "returned" =>
           /\ IsNoError(sent[Len(sent)])
           /\ \A k \in 1..(Len(sent) - 1) : IsServerError(sent[k])
    /\ \A k \in 1..Len(sent) :
           (IsNoError(sent[k]) /\ rpc # "response") => (rpc = "returned" /\ Len(sent) = k)
    /\ Len(slept) = attempt
    /\ \A n \in 0..(Len(slept) - 1) : slept[n + 1] = backoff_factor * (2 ^ n)

C29_TimeoutIsRetried ==
    thrown.type = "TimeoutException" =>
        /\ Len(sent) = max_retries + 1
        /\ Len(slept) = max_retries

----------------------------------------------------------------------------
(* The specification of a batch whose downloads are run to their end, for
   every max_concurrent *)

\* Batches of two or three tasks: an update and an install, and a third
\* entry that is an install or needs no action, with different filenames.
InitDownload ==
    /\ InitInputs
    /\ kind["a"] = "update"
    /\ kind["b"] = "install"
    /\ kind["c"] \in {"install", "skip"}
    /\ fname = [s \in Slugs |-> CASE s = "a" -> "x.jar" [] s = "b" -> "y.jar" [] OTHER -> "z.jar"]
    /\ oldCase = "other"
    /\ max_concurrent \in 1..MaxConcurrent
    /\ disk = InitialDisk
    /\ ledger0 = DumpState(InitialState)
    /\ ledgerFile = ledger0
    /\ live = DictKeys(ledger0.files)
    /\ nOps = 0
    /\ ApplyCalled
    /\ ServiceIdle
    /\ CheckIdle
    /\ StateIdle
    /\ GatewayIdle

\* The event loop runs every download that can take a step: one that
\* waits for the semaphore when a place is free, and one that holds it.
SpecDownload == InitDownload /\ [][Next]_vars /\ WF_vars(Download)

\* The tasks of download_all.
TaskSlugs == {tasks[i] : i \in 1..Len(tasks)}

\* C30: never more than max_concurrent downloads are in progress; every
\* task that waits is started and every task that is started ends, with a
\* success or a failure, unless the batch is cancelled; and when
\* download_all has returned every task has a result.
C30_BoundedAndNoStarvation ==
    /\ [](Cardinality(InProgress) <= max_concurrent)
    /\ [](pc = "process" => \A s \in TaskSlugs : dl[s].st \in {"ok", "fail"})
    /\ \A s \in Slugs :
          /\ (pc = "download" /\ dl[s].st = "queued") ~>
                 (dl[s].st \in {"running", "open", "streamed", "hashed", "ok", "fail"}
                  \/ pc = "cancelled")
          /\ (pc = "download" /\ dl[s].st \in {"queued", "running", "open", "streamed", "hashed"}) ~>
                 (dl[s].st \in {"ok", "fail"} \/ pc = "cancelled")

\* With one download at a time, the first of three tasks has failed, the
\* second has succeeded and the third is running.
C30_Witness ==
    /\ max_concurrent = 1
    /\ pc = "download"
    /\ Len(tasks) = 3
    /\ dl[tasks[1]].st = "fail"
    /\ dl[tasks[2]].st = "ok"
    /\ dl[tasks[3]].st \in {"running", "open"}

----------------------------------------------------------------------------
(* Claims about the results of download_all *)

\* Lines 204-209: the DownloadResult download_file returns for a task.
DownloadResult(s) ==
    [task |-> Task(s),
     success |-> Success(s),
     file_path |-> IF Success(s) THEN Task(s).dest ELSE NoPath,
     error |-> dl[s].error]

\* Lines 231-234: asyncio.gather returns the results in the order of the
\* awaitables it was given, whatever the order they ended in.
download_results == [i \in 1..Len(tasks) |-> DownloadResult(tasks[i])]

\* download_all has returned to apply_updates.
DownloadAllReturned == pc \in {"process", "save", "saving", "done", "raised"} /\ tasks # <<>>

\* A failure that is the task's own: its request or its stream failed, or
\* the bytes served for it do not have the declared digest.
OwnFailure(s) ==
    \/ dl[s].error \in {"HTTP error", "I/O error"}
    \/ dl[s].error = "Hash mismatch" /\ dl[s].read = compute_sha512(Bytes("bad", s))

\* C31: download_all returns one result per task, results[i] being the
\* result of tasks[i] whatever the order the downloads ended in; a failure
\* is a result with success False, an error message and no file path, never
\* an exception leaving apply_updates; and a task fails only by a failure
\* of its own, never by what happened to another task.
C31_OneResultPerTaskIndependent ==
    DownloadAllReturned =>
        /\ Len(download_results) = Len(tasks)
        /\ \A i \in 1..Len(tasks) :
              LET r == download_results[i] IN
              /\ r.task = Task(tasks[i])
              /\ dl[tasks[i]].st \in {"ok", "fail"}
              /\ ~r.success => (r.error # "-" /\ r.file_path = NoPath
                                /\ OwnFailure(tasks[i]))
              /\ r.success => r.file_path = r.task.dest
        /\ pc = "raised" => SaveFailed

----------------------------------------------------------------------------
(* The specification of get_install_status *)

\* httpx.HTTPError and its subclasses, of which the timeouts are.
IsHTTPError(e) == e.type \in {"TimeoutException"}

\* get_versions, lines 228-230: the path of the request for a slug.
VersionsPath(s) ==
    CASE s = "a" -> "/project/a/version"
      [] s = "b" -> "/project/b/version"
      [] OTHER -> "/project/c/version"

\* Line 353: except (APIError, httpx.HTTPError).
CaughtByStatus(e) == IsAPIError(e) \/ IsHTTPError(e)

\* Lines 337-352: the status once the versions are there.
StatusFor(installed, versions, ch) ==
    LET latest == get_latest_compatible_version(versions, minecraft_version, loader, ch)
        primary_file == PrimaryFile(latest.files)
    IN IF latest = NoVersion THEN NOT_COMPATIBLE
       ELSE IF primary_file # NoProjectFile
               /\ Lower(installed.sha512) # Lower(GetSha512OrEmpty(primary_file))
            THEN OUTDATED
            ELSE INSTALLED

InitStatus ==
    /\ kind = [s \in Slugs |-> "skip"]
    /\ fname = [s \in Slugs |-> CASE s = "a" -> "x.jar" [] s = "b" -> "y.jar" [] OTHER -> "z.jar"]
    /\ oldCase = "other"
    /\ verify_hash = TRUE
    /\ backup = TRUE
    /\ max_concurrent = MaxConcurrent
    /\ disk \in {CheckedDisk({}), CheckedDisk({"a"})}
    /\ ledger0 \in {DumpState(CheckedLedger), AbsentDoc, PartialDoc}
    /\ ledgerFile = ledger0
    /\ live = DictKeys(ledger0.files)
    /\ nOps = 0
    /\ ApplyCalled
    /\ StateIdle
    /\ NoCallbacks
    /\ FirstCall
    /\ CacheIdle
    /\ asked \in Slugs
    /\ spc = "start"
    /\ install_status = "-"
    /\ channel \in ChannelPatterns
    /\ \E r \in {x \in Answers(asked) : ~x.raises} :
           remote = [s \in Slugs |-> IF s = asked THEN r ELSE NoAnswer]
    /\ results = <<>>
    /\ cpc = "idle"
    /\ cidx = 1
    /\ given_versions = <<>>
    /\ wanted = [minecraft_version |-> minecraft_version, loader |-> loader,
                 channel |-> RELEASE]
    /\ filtered = [c \in ReleaseChannel |-> NotCalled]
    /\ chosen = {}
    /\ max_retries \in 0..MaxRetries
    /\ backoff_factor = 1
    /\ slug_arg = [slug |-> asked, path |-> VersionsPath(asked)]
    /\ attempt = 0
    /\ sent = <<>>
    /\ slept = <<>>
    /\ rpc = "idle"
    /\ thrown = NoException

statusFrame == UNCHANGED <<inputVars, fsVars, applyVars, histVars, nOps, checkVars,
                           stateVars, filterVars, max_retries, backoff_factor, slug_arg,
                           attempt, sent, slept, thrown, asked, callbackVars, planVars,
                           cacheVars>>

\* Lines 310-324: the ledger is read; without a record of the slug, or
\* without its file on disk, the answer is NOT_INSTALLED; otherwise
\* get_versions sends its request.
StatusBegin ==
    /\ spc = "start"
    /\ LET loaded == _load_state(ledgerFile)
           installed == DictGetOrNone(loaded.state.files, asked)
       IN IF ~loaded.ok
          THEN spc' = "raised" /\ UNCHANGED <<install_status, rpc>>
          ELSE IF installed = NoInstalled \/ disk[installed.file_path] = NoFile
               THEN /\ spc' = "returned"
                    /\ install_status' = NOT_INSTALLED
                    /\ UNCHANGED rpc
               ELSE /\ spc' = "versions"
                    /\ rpc' = "request"
                    /\ UNCHANGED install_status
    /\ statusFrame

\* Lines 324-358: _request has ended. Its exception is answered with
\* CHECK_FAILED when the except clause names it and leaves
\* get_install_status otherwise, as does the error of response.json() on a
\* body that is no JSON document; from the versions the status is computed.
StatusEnd ==
    /\ spc = "versions"
    /\ RequestEnded
    /\ LET installed == DictGetOrNone(_load_state(ledgerFile).state.files, asked)
       IN IF rpc = "raised"
          THEN IF CaughtByStatus(thrown)
               THEN spc' = "returned" /\ install_status' = CHECK_FAILED
               ELSE spc' = "raised" /\ UNCHANGED install_status
          ELSE IF sent[Len(sent)].status_code # 200
               THEN spc' = "raised" /\ UNCHANGED install_status
               ELSE /\ spc' = "returned"
                    /\ install_status' =
                           StatusFor(installed, remote[asked].versions, channel[asked])
    /\ UNCHANGED rpc
    /\ statusFrame

NextStatus ==
    \/ StatusBegin
    \/ NextRequest
    \/ StatusEnd

SpecStatus == InitStatus /\ [][NextStatus]_vars

\* The record of the slug asked about, as the ledger file had it.
AskedRecord == DictGetOrNone(_load_state(ledger0).state.files, asked)

\* The gateway failed: _request has ended on an error status, 404, 429 or
\* 5xx with no retry left, or on a timeout.
GatewayFailed ==
    /\ rpc = "raised"
    /\ LET r == sent[Len(sent)] IN
          r.timeout \/ r.status_code \in {404, 429} \/ IsServerError(r)

\* C32: get_install_status answers NOT_INSTALLED, and sends no request,
\* when the ledger has no record of the slug or the recorded file is not on
\* disk; otherwise, when the gateway fails, with 404, 429, 5xx after the
\* retries or a timeout, it answers CHECK_FAILED and raises nothing; and
\* it never changes the ledger file.
C32_StatusWithoutRequestOrCheckFailed ==
    /\ ledgerFile = ledger0
    /\ (spc # "start" /\ _load_state(ledger0).ok) =>
          IF AskedRecord = NoInstalled \/ disk[AskedRecord.file_path] = NoFile
          THEN /\ spc = "returned"
               /\ install_status = NOT_INSTALLED
               /\ sent = <<>>
          ELSE (GatewayFailed /\ spc # "versions") =>
                   (spc = "returned" /\ install_status = CHECK_FAILED)

----------------------------------------------------------------------------
(* The specification of a batch whose Downloader has its callbacks set *)

InitCallbacks ==
    /\ InitInputs
    /\ kind["a"] = "update"
    /\ kind["b"] = "install"
    /\ kind["c"] \in {"install", "skip"}
    /\ fname = [s \in Slugs |-> CASE s = "a" -> "x.jar" [] s = "b" -> "y.jar" [] OTHER -> "z.jar"]
    /\ oldCase = "other"
    /\ max_concurrent = MaxConcurrent
    /\ disk = InitialDisk
    /\ ledger0 = DumpState(InitialState)
    /\ ledgerFile = ledger0
    /\ live = DictKeys(ledger0.files)
    /\ nOps = 0
    /\ ApplyCalled
    /\ CheckIdle
    /\ StateIdle
    /\ GatewayIdle
    /\ StatusIdle
    /\ FirstCall
    /\ CacheIdle
    /\ has_callbacks = TRUE
    /\ calls = [s \in Slugs |-> <<>>]

SpecCallbacks == InitCallbacks /\ [][Next]_vars

\* The calls for a task are on_task_start first and only first, then
\* on_progress with the task's id, and on_task_complete, with the task's
\* id, last and only last.
CallsInOrder(c, s) ==
    \A i \in 1..Len(c) :
        /\ (c[i].call = "on_task_start") <=> (i = 1)
        /\ c[i].call = "on_progress" => c[i].task_id = TaskId(s)
        /\ c[i].call = "on_task_complete" =>
               (i = Len(c) /\ i > 1 /\ c[i].task_id = TaskId(s))

\* C33: the callbacks of a task come in the order on_task_start,
\* on_progress any number of times with the id on_task_start returned,
\* on_task_complete; a task whose on_task_start was called and whose
\* download_file has returned had on_task_complete called once, with its
\* success and, on a failure, its error message; and a task that failed
\* before on_task_start had no on_task_complete.
C33_CallbacksInOrderCompleteOnce ==
    \A s \in Slugs :
        /\ CallsInOrder(calls[s], s)
        /\ (dl[s].st \in {"ok", "fail"} /\ calls[s] # <<>>) =>
              LET last == calls[s][Len(calls[s])] IN
              /\ last.call = "on_task_complete"
              /\ last.success = Success(s)
              /\ ~Success(s) => (last.error = dl[s].error /\ last.error # "-")

----------------------------------------------------------------------------
(* Claims about the ledger a batch persists *)

\* The ledger loaded at the start with the entries of the given slugs
\* replaced by the records of their new files.
WithReplaced(st, slugs) ==
    StateFile(st.version,
              {e \in st.files : e.key \notin slugs}
              \cup {[key |-> s, val |-> NewRecord(s, PlaceDest(s))] : s \in slugs})

\* C34: the ledger a batch that has returned leaves in the file is the
\* ledger it loaded with the entries of the successful slugs replaced and
\* every other entry as it was; the file is not written while the batch
\* runs, and not at all when no slug succeeded.
C34_OnlySuccessfulEntriesReplaced ==
    /\ pc \in {"start", "prepare", "download", "process", "save"} => ledgerFile = ledger0
    /\ SuccessfulSlugs = {} => (ledgerFile = ledger0 /\ io.saves = 0)
    /\ (pc = "done" /\ SuccessfulSlugs # {}) =>
           ledgerFile = DumpState(WithReplaced(StateBefore, SuccessfulSlugs))

\* A batch has returned in which one update succeeded, another update
\* failed, and a third entry, with a record, needed no action.
C34_Witness ==
    /\ pc = "done"
    /\ \E s, f, n \in Slugs :
          /\ kind[s] = "update" /\ s \in SuccessfulSlugs
          /\ kind[f] = "update" /\ f \in FailedSlugs
          /\ kind[n] = "skip" /\ HasRecord(n)
          /\ Entry(ledgerFile.files, f) = model_dump(OldRecord(f))
          /\ Entry(ledgerFile.files, n) = model_dump(OldRecord(n))
          /\ Entry(ledgerFile.files, s) # model_dump(OldRecord(s))

----------------------------------------------------------------------------
(* The specification of a batch, a check_updates after it, and a second
   apply_updates on the results of that check *)

\* The versions get_versions lists for a slug, before and after the batch:
\* the ones the entries of the batch were planned from.
\* c's lists an unflagged file, the target file and another flagged file;
\* b's lists the target file, flagged; a's lists the target file and
\* another file, neither flagged; a version may also list no file.
Auxiliary(s, prim) == ProjectFile("sources.jar", Hex(Bytes("aux", s), FALSE), prim)
PlannedFiles(s) ==
    CASE s = "c" -> <<Auxiliary(s, FALSE), ProjectFile(fname[s], DeclaredHash(s), TRUE),
                      Auxiliary(s, TRUE)>>
      [] s = "b" -> <<ProjectFile(fname[s], DeclaredHash(s), TRUE)>>
      [] OTHER -> <<ProjectFile(fname[s], DeclaredHash(s), FALSE), Auxiliary(s, FALSE)>>
PlannedVersion(s) ==
    ProjectVersion("v2", "2.0", RELEASE, {"1.21"}, {"fabric"}, 2,
                   IF kind[s] \in {"nofile", "skip"} THEN <<>> ELSE PlannedFiles(s))
InstalledVersion(s) ==
    ProjectVersion("v1", "1.0", RELEASE, {"1.21"}, {"fabric"}, 1,
                   <<ProjectFile(OldPath(s).name, Hex(Bytes("old", s), FALSE), TRUE)>>)
RemoteFor(s) ==
    CASE kind[s] \in {"install", "update", "nofile"} ->
            Returns(<<InstalledVersion(s), PlannedVersion(s)>>)
      [] SkipStatus(s) = INSTALLED -> Returns(<<InstalledVersion(s), PlannedVersion(s)>>)
      [] SkipStatus(s) = NOT_COMPATIBLE -> Returns(<<>>)
      [] OTHER -> Raises("Request timed out")

\* The kind of the entry an UpdateCheckResult makes in the next batch.
KindOf(r) ==
    CASE r.status \notin Actionable -> "skip"
      [] r.latest_file = NoProjectFile -> "nofile"
      [] r.status = OUTDATED -> "update"
      [] OTHER -> "install"

InitReplan ==
    /\ InitInputs
    /\ kind["a"] \in {"update", "skip"}
    /\ kind["b"] \in {"install", "nofile"}
    /\ kind["c"] \in {"install", "skip"}
    /\ fname = [s \in Slugs |-> CASE s = "a" -> "x.jar" [] s = "b" -> "y.jar" [] OTHER -> "z.jar"]
    /\ oldCase = "other"
    /\ backup
    /\ max_concurrent = MaxConcurrent
    /\ disk = InitialDisk
    /\ ledger0 = IF InitialState.files = {} THEN AbsentDoc ELSE DumpState(InitialState)
    /\ ledgerFile = ledger0
    /\ live = DictKeys(ledger0.files)
    /\ nOps = 0
    /\ ApplyCalled
    /\ ServiceIdle
    /\ StateIdle
    /\ GatewayIdle
    /\ channel = [s \in Slugs |-> RELEASE]
    /\ remote = [s \in Slugs |-> RemoteFor(s)]
    /\ results = <<>>
    /\ cpc = "idle"
    /\ cidx = 1

\* check_updates is called on the same declarations once the batch has
\* returned.
Recheck ==
    /\ pc = "done"
    /\ cpc = "idle"
    /\ ~previous.called
    /\ cpc' = "loop"
    /\ UNCHANGED <<results, cidx>>
    /\ checkFrame

\* apply_updates is called again, on the results of that check.
ApplyAgain ==
    /\ pc = "done"
    /\ cpc = "done"
    /\ ~previous.called
    /\ previous' = [called |-> TRUE, successful |-> SuccessfulSlugs, disk |-> disk,
                    ledgerFile |-> ledgerFile]
    /\ kind' = [s \in Slugs |->
                  KindOf(results[CHOOSE i \in 1..Len(results) : results[i].slug = s])]
    /\ pc' = "start"
    /\ idx' = 1
    /\ pstep' = "place"
    /\ state' = StateFile(STATE_VERSION, {})
    /\ state_modified' = FALSE
    /\ tasks' = <<>>
    /\ update_info' = [s \in Slugs |-> "-"]
    /\ result' = EmptyResult
    /\ final_path' = NoPath
    /\ dl' = [s \in Slugs |-> NoDownload]
    /\ phase' = [s \in Slugs |-> "none"]
    /\ io' = [loads |-> 0, saves |-> 0]
    /\ faults' = {}
    /\ UNCHANGED <<fname, oldCase, verify_hash, backup, max_concurrent, fsVars, live, nOps,
                   checkVars, stateVars, gatewayVars, statusVars, callbackVars, cacheVars>>

NextReplan ==
    \/ Next
    \/ Recheck
    \/ CheckProject
    \/ CheckReturn
    \/ ApplyAgain

SpecReplan == InitReplan /\ [][NextReplan]_vars

\* The result check_updates has for a slug, once it has one.
Rechecked(s) == \E i \in 1..Len(results) : results[i].slug = s
ResultOf(s) == results[CHOOSE i \in 1..Len(results) : results[i].slug = s]

\* C35: after a batch that returned with its ledger saved, check_updates
\* on the same remote versions finds every slug the batch reported
\* successful INSTALLED, with or without a declared sha512; the second
\* apply_updates on those results downloads nothing for such a slug and
\* leaves its file and its ledger entry as they are; and when no entry of
\* the new plan needs action it reads and writes nothing at all.
C35_PlanThenApplyIsIdempotent ==
    /\ ~previous.called =>
          \A s \in SuccessfulSlugs :
              (pc = "done" /\ Rechecked(s)) => ResultOf(s).status = INSTALLED
    /\ previous.called =>
          /\ \A s \in previous.successful :
                LET record == Entry(previous.ledgerFile.files, s) IN
                /\ kind[s] = "skip"
                /\ dl[s].st = "none" /\ phase[s] = "none" /\ s \notin TaskSlugs
                /\ disk[record.file_path.str] = previous.disk[record.file_path.str]
                /\ ledgerFile.kind = "json" => Entry(ledgerFile.files, s) = record
          /\ (\A s \in Slugs : kind[s] = "skip") =>
                /\ pc \in {"start", "done"}
                /\ disk = previous.disk
                /\ ledgerFile = previous.ledgerFile
                /\ io = [loads |-> 0, saves |-> 0]

\* A batch installed the file without a declared sha512 and updated
\* another, the check found both INSTALLED, and the second apply_updates
\* has returned having done nothing.
C35_Witness ==
    /\ previous.called
    /\ previous.successful = {"a", "b", "c"}
    /\ \A s \in Slugs : kind[s] = "skip"
    /\ pc = "done"
    /\ DeclaredHash("c") = NoneHash

----------------------------------------------------------------------------
(* The specification of ledger operations that run as tasks of the same
   event loop while a batch is awaiting get_project or its downloads *)

\* apply_updates is suspended in an await that yields to the event loop:
\* the request of get_project, or download_all.
BatchAwaiting == pc \in {"prepare", "download"}

\* _save_installed_file, lines 156-164, run by another task meanwhile, for
\* a slug the batch does not act on. It has no await that yields, so it
\* runs from its load to its save in one piece.
SaveInstalledFileMeanwhile(installed) ==
    /\ BatchAwaiting
    /\ kind[installed.slug] = "skip"
    /\ nOps < MaxLedgerOps
    /\ nOps' = nOps + 1
    /\ LET loaded == _load_state(ledgerFile)
           new_state == [loaded.state EXCEPT
                           !.files = DictSet(@, installed.slug, installed)]
       IN \/ /\ ~loaded.ok
             /\ UNCHANGED <<ledgerFile, live>>
          \/ /\ loaded.ok
             /\ ledgerFile' = WriteDocument(new_state)
             /\ live' = live \cup {installed.slug}
          \/ /\ loaded.ok
             /\ ledgerFile' = OpenForWriting(ledgerFile)
             /\ UNCHANGED live
    /\ ledgerFrame

\* _remove_installed_file, lines 166-175, run by another task meanwhile.
RemoveInstalledFileMeanwhile(s) ==
    /\ BatchAwaiting
    /\ kind[s] = "skip"
    /\ nOps < MaxLedgerOps
    /\ nOps' = nOps + 1
    /\ LET loaded == _load_state(ledgerFile)
           new_state == [loaded.state EXCEPT !.files = DictDel(@, s)]
       IN \/ /\ ~loaded.ok
             /\ UNCHANGED <<ledgerFile, live>>
          \/ /\ loaded.ok /\ ~DictHas(loaded.state.files, s)
             /\ UNCHANGED <<ledgerFile, live>>
          \/ /\ loaded.ok /\ DictHas(loaded.state.files, s)
             /\ ledgerFile' = WriteDocument(new_state)
             /\ live' = live \ {s}
          \/ /\ loaded.ok /\ DictHas(loaded.state.files, s)
             /\ ledgerFile' = OpenForWriting(ledgerFile)
             /\ UNCHANGED live
    /\ ledgerFrame

NextConcurrent ==
    \/ Next
    \/ \E s \in Slugs : SaveInstalledFileMeanwhile(InstalledBy(s, "v9"))
    \/ \E s \in Slugs : RemoveInstalledFileMeanwhile(s)

SpecConcurrent == InitLedger /\ [][NextConcurrent]_vars

\* C36: when a batch and the ledger operations that ran while it was
\* awaiting have all completed, the ledger file holds the mutations of
\* both: a record for every slug that was upserted and not removed since,
\* and for no other.
C36_NoLostLedgerMutation ==
    (pc = "done" /\ ledgerFile.kind \in {"json", "absent"}) =>
        DictKeys(ledgerFile.files) = live

----------------------------------------------------------------------------
(* Claims about the paths of a batch *)

\* C37: in one batch no two tasks have the same staging path and no two
\* slugs the same final path, and once the batch has returned the file
\* recorded for each successful slug holds the bytes downloaded for that
\* slug, whatever the filenames of the target files are.
C37_NoPathCollision ==
    /\ \A s, t \in TaskSlugs :
          s # t => (Task(s).dest # Task(t).dest /\ PlaceDest(s) # PlaceDest(t))
    /\ pc = "done" =>
          \A s \in SuccessfulSlugs :
              disk[Entry(state.files, s).file_path] = Bytes("new", s)

----------------------------------------------------------------------------
(* Claims about the target file *)

\* The version a result names, among the ones get_versions listed.
VersionNamed(r) ==
    CHOOSE v \in Elements(remote[r.slug].versions) : v.id = r.latest_version_id

\* The file is the first flagged file of the list, or the first file of a
\* list without a flagged file, or None for an empty list.
IsTargetOf(file, files) ==
    /\ (\E i \in 1..Len(files) : files[i].primary) =>
          \E i \in 1..Len(files) :
              files[i] = file /\ file.primary /\ \A j \in 1..(i - 1) : ~files[j].primary
    /\ (files # <<>> /\ \A i \in 1..Len(files) : ~files[i].primary) => file = files[1]
    /\ files = <<>> => file = NoProjectFile

\* The results that name a version.
WithVersion == {i \in 1..Len(results) : results[i].latest_version_id # "-"}

\* The slugs whose result names a version that lists no file.
WithoutTargetFile ==
    {results[i].slug : i \in {j \in WithVersion : VersionNamed(results[j]).files = <<>>}}

TargetFilesChosen ==
    \A i \in WithVersion : IsTargetOf(results[i].latest_file, VersionNamed(results[i]).files)

\* The second apply_updates has returned.
AppliedAgain == previous.called /\ pc = "done"

\* C38 as stated: the target file of a result is the first flagged file of
\* its version, else the first file, else None; and apply_updates records
\* every slug whose version lists no file as failed, and downloads nothing
\* for it.
C38_TargetFileOrFailed ==
    /\ TargetFilesChosen
    /\ AppliedAgain =>
          \A s \in WithoutTargetFile : s \in FailedSlugs /\ dl[s].st = "none"

\* C38, amended: the target file of a result is the first flagged file of
\* its version, else the first file, else None; apply_updates downloads
\* nothing for a slug whose version lists no file, records it as failed
\* when the slug has no ledger record (its status is NOT_INSTALLED), and
\* takes no action for it, recording no failure, when it has one (its
\* status is INSTALLED).
C38_TargetFileOrFailedIfNotInstalled ==
    /\ TargetFilesChosen
    /\ \A i \in WithVersion :
          results[i].latest_file = NoProjectFile =>
              results[i].status = IF results[i].current_file = NoInstalled
                                  THEN NOT_INSTALLED ELSE INSTALLED
    /\ AppliedAgain =>
          \A s \in WithoutTargetFile :
              /\ dl[s].st = "none" /\ s \notin TaskSlugs
              /\ IF ResultOf(s).status = NOT_INSTALLED
                 THEN FailedWith(s, "No compatible version found")
                 ELSE s \notin FailedSlugs

\* The check chose a flagged file behind an unflagged one; the second
\* apply_updates recorded a slug without
\* record and without target file as failed and took no action for a slug
\* with a record and without target file.
C38_Witness ==
    /\ AppliedAgain
    /\ \E i \in WithVersion :
          /\ Len(VersionNamed(results[i]).files) > 2
          /\ ~VersionNamed(results[i]).files[1].primary
          /\ results[i].latest_file = VersionNamed(results[i]).files[2]
    /\ \E s, t \in WithoutTargetFile :
          /\ ResultOf(s).status = NOT_INSTALLED /\ s \in FailedSlugs
          /\ ResultOf(t).status = INSTALLED /\ t \notin FailedSlugs

----------------------------------------------------------------------------
(* ApiCache: cache.py *)

\* The latest reading of time.time() and the number of set calls of a run.
MaxClock == 2
MaxSets == 2

\* The data the cache is given: project dicts and version lists, an empty
\* list among them.
ProjectData == {Data("dict", <<"p1">>), Data("dict", <<"p2">>)}
VersionsData == {Data("list", <<>>), Data("list", <<"v1">>)}

\* A freshness check that takes an entry of age ttl_seconds as stale.
_is_fresh_strictly(ts) == (clock - ts) < ttl_seconds

\* Lines 41-42.
_is_fresh(ts) == (clock - ts) <= ttl_seconds

\* Lines 23-32: without a file, or with a file that is not JSON, the data
\* stays empty; else the two namespaces are taken from the file.
_load(file) == IF file.kind = "json" THEN file.data ELSE EmptyCache

\* Lines 44-56: the data of a fresh entry that holds a dict.
get_project(s) ==
    LET entry == cache["project"][s] IN
    IF entry = NoEntry THEN NoData
    ELSE IF entry.ts >= 0 /\ entry.data.type = "dict" /\ _is_fresh(entry.ts)
         THEN entry.data
         ELSE NoData

\* Lines 62-74: the data of a fresh entry that holds a list.
get_versions(s) ==
    LET entry == cache["versions"][s] IN
    IF entry = NoEntry THEN NoData
    ELSE IF entry.ts >= 0 /\ entry.data.type = "list" /\ _is_fresh(entry.ts)
         THEN entry.data
         ELSE NoData

\* What a get of the namespace returns for the slug.
Get(n, s) == IF n = "project" THEN get_project(s) ELSE get_versions(s)

InitCache ==
    /\ InitInputs
    /\ kind = [s \in Slugs |-> "skip"]
    /\ oldCase = "other"
    /\ max_concurrent = MaxConcurrent
    /\ disk = InitialDisk
    /\ ledger0 = IF InitialState.files = {} THEN AbsentDoc ELSE DumpState(InitialState)
    /\ ledgerFile = ledger0
    /\ live = DictKeys(ledger0.files)
    /\ nOps = 0
    /\ ApplyCalled
    /\ StatusIdle
    /\ NoCallbacks
    /\ FirstCall
    /\ CheckIdle
    /\ StateIdle
    /\ GatewayIdle
    /\ ttl_seconds \in 0..1
    /\ clock = 0
    /\ cache = EmptyCache
    /\ cache_file = AbsentCacheFile
    /\ sets = 0
    /\ last_set = EmptyCache
    /\ fetched = NotFetched

cacheFrame == UNCHANGED <<inputVars, fsVars, applyVars, histVars, nOps, checkVars,
                          stateVars, gatewayVars, statusVars, callbackVars, planVars,
                          ttl_seconds>>

\* Lines 14-21: another ApiCache is constructed on the same path.
Construct ==
    /\ cache' = _load(cache_file)
    /\ last_set' = cache'
    /\ fetched' = [NotFetched EXCEPT !.op = "init", !.at = clock]
    /\ UNCHANGED <<clock, cache_file, sets>>
    /\ cacheFrame

\* Lines 34-39: the file is written with the data, or the write fails
\* with an OSError that is swallowed, before or after the file was cut.
_save(data) ==
    \E outcome \in {"written", "failed", "partial"} :
        cache_file' = CASE outcome = "written" -> CacheFile("json", data)
                        [] outcome = "failed" -> cache_file
                        [] OTHER -> PartialCacheFile

\* Lines 58-60 and 76-78: the entry of the slug is replaced in the
\* namespace, stamped with the time, and the data is saved.
Set(n, s, data) ==
    /\ sets < MaxSets
    /\ sets' = sets + 1
    /\ cache' = [cache EXCEPT ![n][s] = CacheEntry(clock, data)]
    /\ _save(cache')
    /\ last_set' = [last_set EXCEPT ![n][s] = CacheEntry(clock, data)]
    /\ fetched' = [op |-> "set", namespace |-> n, slug |-> s, value |-> data, at |-> clock]
    /\ UNCHANGED clock
    /\ cacheFrame

set_project == \E s \in CacheSlugs, data \in ProjectData : Set("project", s, data)
set_versions == \E s \in CacheSlugs, data \in VersionsData : Set("versions", s, data)

\* get_project and get_versions are called.
GetProject ==
    /\ \E s \in CacheSlugs :
           fetched' = [op |-> "get", namespace |-> "project", slug |-> s,
                       value |-> get_project(s), at |-> clock]
    /\ UNCHANGED <<clock, cache, cache_file, sets, last_set>>
    /\ cacheFrame

GetVersions ==
    /\ \E s \in CacheSlugs :
           fetched' = [op |-> "get", namespace |-> "versions", slug |-> s,
                       value |-> get_versions(s), at |-> clock]
    /\ UNCHANGED <<clock, cache, cache_file, sets, last_set>>
    /\ cacheFrame

\* A second passes.
Tick ==
    /\ clock < MaxClock
    /\ clock' = clock + 1
    /\ UNCHANGED <<cache, cache_file, sets, last_set, fetched>>
    /\ cacheFrame

NextCache == Construct \/ set_project \/ set_versions \/ GetProject \/ GetVersions \/ Tick

SpecCache == InitCache /\ [][NextCache]_vars

\* The entry the ApiCache has for the key: the one set last, or loaded.
EntryOf(n, s) == last_set[n][s]

\* The step is a get, a set.
GetReturns == fetched'.op = "get" /\ fetched' # fetched
SetReturns == sets' = sets + 1

\* C39: a get returns the data stored for the slug in the namespace
\* exactly when there is an entry for it whose age is at most ttl_seconds,
\* and None otherwise; once a set has returned, a get of the same key
\* within the TTL returns the data that was set; and a set changes what
\* no get of another slug or namespace returns.
C39_FreshEntryReturnedKeysIndependent ==
    [][/\ GetReturns =>
              LET e == EntryOf(fetched'.namespace, fetched'.slug) IN
              fetched'.value = IF e # NoEntry /\ (clock - e.ts) <= ttl_seconds
                               THEN e.data
                               ELSE NoData
       /\ SetReturns =>
              \A n \in Namespaces, s \in CacheSlugs :
                  Get(n, s)' = IF <<n, s>> = <<fetched'.namespace, fetched'.slug>>
                               THEN fetched'.value
                               ELSE Get(n, s)]_vars

\* A get returned None for an entry set more than ttl_seconds ago, while
\* the entry of the same slug in the other namespace is fresh.
C39_Witness ==
    /\ fetched.op = "get"
    /\ fetched.value = NoData
    /\ EntryOf(fetched.namespace, fetched.slug) # NoEntry
    /\ \E n \in Namespaces :
           /\ n # fetched.namespace
           /\ EntryOf(n, fetched.slug) # NoEntry
           /\ Get(n, fetched.slug) = EntryOf(n, fetched.slug).data

====
